---- MODULE Spec2Model ----
(***************************************************************************)
(* Model of the single-run orchestrator (run_cycle.py, single_run_mode)    *)
(* and of the per-node sessions it runs (network_operations.py,            *)
(* execute_telnet_async / execute_ssh_async).                              *)
(*                                                                         *)
(* A session is modelled at the granularity of its suspension points       *)
(* (every `await` on the network); the code between two awaits runs        *)
(* atomically on the single-threaded event loop and is one action.  What   *)
(* the device does at a suspension point (sends a chunk, closes, resets,   *)
(* stays silent) is chosen nondeterministically.                           *)
(*                                                                         *)
(* Two specifications share the actions:                                   *)
(*   Spec       - untimed: a pending timer may fire at any moment;         *)
(*   SpecSilent - discrete clock (one tick = 0.5 s), devices that never    *)
(*                send a byte.                                             *)
(***************************************************************************)
EXTENDS Integers, Sequences, FiniteSets

(* ------------------------------ bounds --------------------------------- *)

\* number of node profiles submitted to single_run_mode
NumNodes == 2

\* longest command script of a node (len(node['commands']))
MaxCmds == 1

\* longest command script of the node in the single-session specifications
MaxSessionCmds == 2

\* most places at which the peer's byte stream is cut into separate reads
MaxCuts == 2

\* most bytes the device sends in the transcript specification
MaxStreamLen == 4

\* node columns of the input file given to the config parsers
MaxColumns == 2

\* characters in the nodename cell of a column
MaxCellLen == 2

\* command rows of the input file
MaxCommandRows == 2

\* ticks the discrete clock may run past the largest TimeoutBudget
ClockSlack == 3

\* most passes of the command script a session makes in cycle mode
MaxPasses == 2

\* the interval between two passes in cycle mode, in ms
MaxInterval == 1

(* ------------------------- program constants --------------------------- *)

\* seconds; run_cycle.py:166
BASE_NODE_TIMEOUT == 30

\* seconds; run_cycle.py:167
SECONDS_PER_COMMAND == 5

\* seconds; network_operations.py:47
CONNECT_TIMEOUT == 10

\* iterations of the username/login scan; network_operations.py:55
NEGOTIATION_ATTEMPTS == 10

\* iterations of the password scan; network_operations.py:95
PASSWORD_POLLS == 30

\* seconds, default of read_until_prompt; network_operations.py:20
PROMPT_TIMEOUT == 40

\* polls after each logout phrase; network_operations.py:160
LOGOUT_POLLS == 5

\* seconds per logout poll; network_operations.py:162
LOGOUT_POLL_TIMEOUT == 3

\* number of logout phrases ['exit', 'logout']; network_operations.py:155
LOGOUT_PHRASES == 2

\* telnet command bytes; network_operations.py:51
IAC == 255

DONT == 254

DO == 253

WONT == 252

WILL == 251

\* clock ticks per second: the login slices of 0.5 s are one tick
TicksPerSecond == 2

\* ticks of one login poll slice (timeout=0.5); network_operations.py:57,97
SLICE_TICKS == 1

(* ------------------------------ state ---------------------------------- *)

VARIABLES
    node,                  \* node profiles: protocol, ncmds, addl, keys
    pc,                    \* per node: suspension point of run_node_task
    cnt,                   \* per node: loop counter of the current poll loop
    step,                  \* per node: which read_until_prompt / logout phrase
    marker,                \* per node: ":" seen in the response being read
    pend,                  \* per node: outcome the session carries through cleanup
    cancelled,             \* per node: wait_for has cancelled the session task
    opened,                \* per node: a connection is open (writer is set)
    log,                   \* per node: the kinds of line written to the node's log file
    emitted,               \* per node: statuses the session has put on the queue
    result,                \* per node: tuple returned by run_node_task
    status_queue,          \* asyncio.Queue of status events
    done_q,                \* as_completed: settled tasks not yet drained
    node_statuses,         \* ProgressDisplay.node_statuses
    completed_count,       \* ProgressDisplay.completed_count
    successful_log_files,  \* list built by the completion loop
    processed,             \* records the completion loop has received, in order
    archived,              \* list handed to create_zip_file
    opc,                   \* position of single_run_mode
    timed,                 \* the clock is modelled
    detail,                \* every kind of log line is recorded
    now,                   \* clock, in ticks
    timer,                 \* per node: ticks left of the current timed wait
    budgetLeft,            \* per node: ticks left until the node's TimeoutBudget expires
    sent,                  \* per node: what the session has written to the transport, in order
    opens,                 \* per node: the paths the session has opened for writing, in order
    wire,                  \* telnet login, byte level: the peer's chunks not yet read
    buffer,                \* telnet login, byte level: the cue buffer of the current scan
    replies,               \* telnet login, byte level: bytes written to the peer so far
    chunks,                \* telnet login, byte level: the chunks read so far, in order
    scan,                  \* telnet login, byte level: position of the login sequence
    negotiation_attempts,  \* telnet login, byte level: iterations of the username/login scan
    polls,                 \* byte level: iterations of the password scan / of the logout polls
    full_output,           \* transcript, byte level: full_output of the running read_until_prompt
    log_file,              \* transcript, byte level: what the session has written to its log file
    file,                  \* config parser: the node columns of the input file as it is read
    table,                 \* config parser: the node columns the parser goes through, cell by cell
    format,                \* config parser: the file format, "csv" or "excel"
    col,                   \* config parser: index i of the column being parsed
    nodes,                 \* config parser: the list of profiles built so far
    ppos,                  \* config parser: position of the parser
    cycle_interval,        \* the interval of cycle mode in ms, -1 in single-run mode
    stop_event             \* cycle mode: the stop event is set

vars == << node, pc, cnt, step, marker, pend, cancelled, opened, log, emitted,
           result, status_queue, done_q, node_statuses, completed_count,
           successful_log_files, processed, archived, opc,
           timed, detail, now, timer, budgetLeft, sent, opens,
           wire, buffer, replies, chunks, scan, negotiation_attempts, polls,
           full_output, log_file, file, table, format, col, nodes, ppos,
           cycle_interval, stop_event >>

parseVars == << file, table, format, col, nodes, ppos >>

cycleVars == << cycle_interval, stop_event >>

transcriptVars == << full_output, log_file >>

wireVars == << wire, buffer, replies, chunks, scan, negotiation_attempts, polls,
               transcriptVars >>

orchVars == << node_statuses, completed_count, successful_log_files,
               processed, archived, opc >>

Nodes == 1..NumNodes

Protocols == {"ssh", "telnet", "other"}

\* a node profile as the parsers return it: the protocol tag, the number of
\* scripted commands, the number of follow-up commands the session can send
\* (addl: 1 when additional_command_1 is filled in, 2 when additional_command_2
\* is too) and the number of additional_command_* keys of the dict (keys: the
\* parsers set a key for every such row of the input file, also when the
\* node's cell is empty)
Profiles ==
    {p \in [protocol : Protocols, ncmds : 0..MaxCmds, addl : 0..2, keys : 0..2] :
        p.addl <= p.keys}

\* the profiles of a list come from one input file: they have the same keys
SameFile(f) == \A m, n \in Nodes : f[m].keys = f[n].keys

\* the profiles with the longest script: both follow-up commands and MaxCmds
\* scripted commands
FullProfiles == {p \in Profiles : p.ncmds = MaxCmds /\ p.addl = 2}

NoResult == [result |-> "unset", error |-> "unset", raised |-> FALSE]

(* --------------------------- pure helpers ------------------------------ *)

\* run_cycle.py:185  len(commands) + number of additional_command keys
num_commands(p) == p.ncmds + p.keys

\* node_timeout with the per-command seconds taken off the base
node_timeout_Shrinks(p) == BASE_NODE_TIMEOUT - (num_commands(p) * SECONDS_PER_COMMAND)

\* run_cycle.py:186  node_timeout, in seconds
node_timeout(p) == BASE_NODE_TIMEOUT + (num_commands(p) * SECONDS_PER_COMMAND)

Ticks(seconds) == seconds * TicksPerSecond

\* the largest TimeoutBudget of the submitted nodes, in ticks
MaxBudgetTicks ==
    LET longest == IF MaxSessionCmds > MaxCmds THEN MaxSessionCmds ELSE MaxCmds
    IN  Ticks(BASE_NODE_TIMEOUT + ((longest + 2) * SECONDS_PER_COMMAND))

MaxTime == MaxBudgetTicks + ClockSlack

\* the status events of node n for the statuses in evs
Events(n, evs) == [i \in 1..Len(evs) |-> [node |-> n, status |-> evs[i]]]

\* a record (node name, result, error) returned by run_node_task; raised
\* tells that run_node_task did not return but let an exception through
Returned(res, err) == [result |-> res, error |-> err, raised |-> FALSE]

\* run_node_task without its last clause `except Exception`: an exception
\* other than the three named ones leaves run_node_task
run_node_task_result_NoCatchAll(o) ==
    CASE o = "ok"      -> Returned("path", "none")
      [] o = "caught"  -> Returned("none", "none")
      [] o = "timeout" -> Returned("none", "TimeoutError")
      [] o = "cancel"  -> Returned("none", "TimeoutError")
      [] o = "prompt"  -> Returned("none", "PromptTimeoutError")
      [] o = "logout"  -> Returned("none", "LogoutFailedError")
      [] OTHER         -> [result |-> "none", error |-> "other", raised |-> TRUE]

\* run_cycle.py:204-214  what run_node_task does for the way the awaited
\* session ended: "ok" (returned log_file_path), "caught" (returned None),
\* "timeout" (asyncio.TimeoutError raised by the session), "cancel"
\* (asyncio.TimeoutError raised by wait_for), "prompt", "logout" (the two
\* custom exceptions), "exc" (any other exception, caught by the last
\* except clause; its message is the error)
run_node_task_result(o) ==
    CASE o = "ok"      -> Returned("path", "none")
      [] o = "caught"  -> Returned("none", "none")
      [] o = "timeout" -> Returned("none", "TimeoutError")
      [] o = "cancel"  -> Returned("none", "TimeoutError")
      [] o = "prompt"  -> Returned("none", "PromptTimeoutError")
      [] o = "logout"  -> Returned("none", "LogoutFailedError")
      [] OTHER         -> Returned("none", "other")

\* run_cycle.py:229-240  the status the completion loop assigns to a record
classify(r) ==
    IF r.error = "TimeoutError" THEN "timeout"
    ELSE IF r.error = "PromptTimeoutError" THEN "no_prompt"
    ELSE IF r.error = "LogoutFailedError" THEN "logout_failed"
    ELSE IF r.error # "none" THEN "error"
    ELSE "success"

\* retains_log without the test `if result:`: every record without an error
\* is appended
retains_log_NoResultCheck(r) == r.error = "none"

\* run_cycle.py:238-239  whether the record's result is appended to
\* successful_log_files
retains_log(r) == r.error = "none" /\ r.result # "none"

\* network_operations.py:91,109,122,131,139,158  one write of the session to
\* the transport: w is "login_id", "password", "addl" (follow-up command k),
\* "cmd" (scripted command k) or "logout" (logout phrase k: 1 'exit',
\* 2 'logout'); mk, kept for the follow-up commands: the response returned
\* by the read_until_prompt before the write contained ":"
Wr(w, k, mk) == [w |-> w, k |-> k, mk |-> mk]

\* AfterRead that takes the scripted command to send from the index of the
\* read that returned, not from the next one
AfterRead_RepeatsCommand(p, s, mk) ==
    LET toLogout == [pc |-> "logout", step |-> 1, lines |-> {"logout_attempt"},
                     wr |-> Wr("logout", 1, FALSE)]
        toCmds   == IF p.ncmds >= 1
                    THEN [pc |-> "read", step |-> 3, lines |-> {"cmd"},
                          wr |-> Wr("cmd", 1, FALSE)]
                    ELSE toLogout
    IN  CASE s = 0 -> IF p.addl >= 1
                      THEN [pc |-> "read", step |-> 1, lines |-> {"addl1"},
                            wr |-> Wr("addl", 1, mk)]
                      ELSE toCmds
          [] s = 1 -> IF p.addl >= 2 /\ mk
                      THEN [pc |-> "read", step |-> 2, lines |-> {"addl2"},
                            wr |-> Wr("addl", 2, mk)]
                      ELSE toCmds
          [] s = 2 -> toCmds
          [] OTHER -> IF s - 2 < p.ncmds
                      THEN [pc |-> "read", step |-> s + 1, lines |-> {"cmd"},
                            wr |-> Wr("cmd", s - 2, FALSE)]
                      ELSE toLogout

\* network_operations.py:116-147  what run_commands does after the
\* read_until_prompt numbered s returned (0: the initial prompt read,
\* 1 and 2: the follow-up commands, 2+k: scripted command k); mk: ":" was in
\* the response
AfterRead(p, s, mk) ==
    LET toLogout == [pc |-> "logout", step |-> 1, lines |-> {"logout_attempt"},
                     wr |-> Wr("logout", 1, FALSE)]
        toCmds   == IF p.ncmds >= 1
                    THEN [pc |-> "read", step |-> 3, lines |-> {"cmd"},
                          wr |-> Wr("cmd", 1, FALSE)]
                    ELSE toLogout
    IN  CASE s = 0 -> IF p.addl >= 1
                      THEN [pc |-> "read", step |-> 1, lines |-> {"addl1"},
                            wr |-> Wr("addl", 1, mk)]
                      ELSE toCmds
          [] s = 1 -> IF p.addl >= 2 /\ mk
                      THEN [pc |-> "read", step |-> 2, lines |-> {"addl2"},
                            wr |-> Wr("addl", 2, mk)]
                      ELSE toCmds
          [] s = 2 -> toCmds
          [] OTHER -> IF s - 2 < p.ncmds
                      THEN [pc |-> "read", step |-> s + 1, lines |-> {"cmd"},
                            wr |-> Wr("cmd", s - 1, FALSE)]
                      ELSE toLogout

\* the writes recorded when the session writes ws
Written(ws) == IF detail THEN ws ELSE <<>>

\* the kinds of log line that tell how far the transcript of a session got:
\* the header, the login banner, device output, the error notice
CoarseLines == {"connecting", "received", "output", "error"}

\* the kinds of line recorded when the session writes `lines`
Logged(lines) == IF detail THEN lines ELSE lines \cap CoarseLines

\* the suspension points of a session at which its task can be cancelled
AwaitPoints == {"connect", "process", "nego", "pw", "read", "logout", "closing"}

\* the suspension points wrapped in their own asyncio.wait_for
HasTimer(n) ==
    \/ pc[n] \in {"nego", "pw", "read", "logout"}
    \/ pc[n] = "connect" /\ node[n].protocol = "telnet"

\* the timer of the current wait has run out (untimed: it may at any moment)
TimerDue(n) == ~timed \/ timer[n] = 0

\* a session awaited without a timeout: the budget never expires
BudgetDue_NoTimeout(n) == FALSE

\* the node's TimeoutBudget has run out (untimed: it may at any moment)
BudgetDue(n) == ~timed \/ budgetLeft[n] = 0

AllStarted == \A m \in Nodes : pc[m] # "init"

(* -------------------------- session steps ------------------------------ *)

\* network_operations.py:127  the only response whose ":" decides anything
\* is that of additional_command_1 (read 1); a session followed in detail
\* also records it for the initial prompt read (read 0)
TracksMarker(s) == s = 1 \/ (detail /\ s = 0)

\* the session of n moves to suspension point newpc
Move(n, newpc, newcnt, newstep, newmarker, evs, lines, tm, wr) ==
    /\ pc' = [pc EXCEPT ![n] = newpc]
    /\ cnt' = [cnt EXCEPT ![n] = newcnt]
    /\ step' = [step EXCEPT ![n] = newstep]
    /\ marker' = [marker EXCEPT ![n] = newmarker /\ TracksMarker(newstep)]
    /\ emitted' = [emitted EXCEPT ![n] = @ \o evs]
    /\ status_queue' = status_queue \o Events(n, evs)
    /\ log' = [log EXCEPT ![n] = @ \cup Logged(lines)]
    /\ timer' = [timer EXCEPT ![n] = IF timed THEN tm ELSE 0]
    /\ sent' = [sent EXCEPT ![n] = @ \o Written(wr)]
    /\ UNCHANGED << pend, cancelled, opened, result, done_q >>

\* run_node_task returns record r: the task of n is done and as_completed
\* queues it for the completion loop
Settle(n, r) ==
    /\ pc' = [pc EXCEPT ![n] = "settled"]
    /\ pend' = [pend EXCEPT ![n] = "none"]
    /\ result' = [result EXCEPT ![n] = r]
    /\ done_q' = Append(done_q, n)

\* network_operations.py:172-185  the body of the session is left with
\* outcome o; the finally clause closes the writer and awaits wait_closed
\* when a connection was opened
Leave(n, o, evs, lines) ==
    /\ cnt' = [cnt EXCEPT ![n] = 0]
    /\ step' = [step EXCEPT ![n] = 0]
    /\ marker' = [marker EXCEPT ![n] = FALSE]
    /\ emitted' = [emitted EXCEPT ![n] = @ \o evs]
    /\ status_queue' = status_queue \o Events(n, evs)
    /\ log' = [log EXCEPT ![n] = @ \cup Logged(lines)]
    /\ timer' = [timer EXCEPT ![n] = 0]
    /\ UNCHANGED << cancelled, opened, sent >>
    /\ IF opened[n]
       THEN /\ pc' = [pc EXCEPT ![n] = "closing"]
            /\ pend' = [pend EXCEPT ![n] = o]
            /\ UNCHANGED << result, done_q >>
       ELSE Settle(n, run_node_task_result(o))

\* what no session step changes, but for the log file Start opens
cfgVars == << node, orchVars, timed, detail, now, budgetLeft, wireVars, parseVars,
             cycleVars >>

envVars == << cfgVars, opens >>

\* the name of node n: the nodes of a run have distinct names
nodename(n) == n

\* the log path built with the name of the first node for every node
log_file_path_NoName(n) == << "output_dir", nodename(1), "timestamp" >>

\* run_cycle.py:175, 193  os.path.join(output_dir,
\* f"{node['nodename']}_{timestamp}.txt"): the directory, the node name and
\* the timestamp taken once for the run
log_file_path(n) == << "output_dir", nodename(n), "timestamp" >>

\* run_node_task without the protocol test: every node gets a session
Start_SessionForEveryProtocol(n) ==
    /\ opc = "loop"
    /\ pc[n] = "init"
    /\ UNCHANGED cfgVars
    /\ opens' = [opens EXCEPT ![n] = Append(@, log_file_path(n))]
    /\ Move(n, "connect", 0, 0, FALSE, <<"connecting">>, {"connecting"},
            IF node[n].protocol = "telnet" THEN Ticks(CONNECT_TIMEOUT) ELSE 0, <<>>)

\* run_cycle.py:191-202 and network_operations.py:36-48 / 187-200
\* run_node_task starts: an unknown protocol puts one 'error' event and
\* returns at once, with no result and a message as error; otherwise the session opens its log file, reports
\* 'connecting' and suspends in the connect
Start(n) ==
    /\ opc = "loop"
    /\ pc[n] = "init"
    /\ UNCHANGED cfgVars
    /\ opens' = [opens EXCEPT ![n] = IF node[n].protocol = "other"
                                     THEN @
                                     ELSE Append(@, log_file_path(n))]
    /\ IF node[n].protocol = "other"
       THEN /\ emitted' = [emitted EXCEPT ![n] = @ \o <<"error">>]
            /\ status_queue' = status_queue \o Events(n, <<"error">>)
            /\ Settle(n, Returned("none", "other"))
            /\ UNCHANGED << cnt, step, marker, cancelled, opened, log, timer, sent >>
       ELSE Move(n, "connect", 0, 0, FALSE, <<"connecting">>, {"connecting"},
                 IF node[n].protocol = "telnet" THEN Ticks(CONNECT_TIMEOUT) ELSE 0, <<>>)

\* the connection is established and the login id is written at once,
\* before the username/login scan
ConnectOk_WritesLoginId(n) ==
    /\ AllStarted
    /\ pc[n] = "connect"
    /\ UNCHANGED envVars
    /\ pc' = [pc EXCEPT ![n] = IF node[n].protocol = "telnet" THEN "nego" ELSE "process"]
    /\ opened' = [opened EXCEPT ![n] = TRUE]
    /\ emitted' = [emitted EXCEPT ![n] = @ \o <<"authenticating">>]
    /\ status_queue' = status_queue \o Events(n, <<"authenticating">>)
    /\ timer' = [timer EXCEPT ![n] =
                    IF timed /\ node[n].protocol = "telnet" THEN SLICE_TICKS ELSE 0]
    /\ sent' = [sent EXCEPT ![n] = IF node[n].protocol = "telnet"
                                   THEN @ \o Written(<<Wr("login_id", 0, FALSE)>>)
                                   ELSE @]
    /\ UNCHANGED << cnt, step, marker, pend, cancelled, log, result, done_q >>

\* network_operations.py:45-54 (telnet) / 195-202 (ssh)
\* the connection is established: 'authenticating' is reported; telnet enters
\* the username/login scan, ssh awaits create_process
ConnectOk(n) ==
    /\ AllStarted
    /\ pc[n] = "connect"
    /\ UNCHANGED envVars
    /\ pc' = [pc EXCEPT ![n] = IF node[n].protocol = "telnet" THEN "nego" ELSE "process"]
    /\ opened' = [opened EXCEPT ![n] = TRUE]
    /\ emitted' = [emitted EXCEPT ![n] = @ \o <<"authenticating">>]
    /\ status_queue' = status_queue \o Events(n, <<"authenticating">>)
    /\ timer' = [timer EXCEPT ![n] =
                    IF timed /\ node[n].protocol = "telnet" THEN SLICE_TICKS ELSE 0]
    /\ UNCHANGED << cnt, step, marker, pend, cancelled, log, result, done_q, sent >>

\* network_operations.py:45-48, 172-173  asyncio.wait_for(open_connection,
\* timeout=10) raises asyncio.TimeoutError, which the session re-raises
ConnectTimeout(n) ==
    /\ AllStarted
    /\ pc[n] = "connect"
    /\ node[n].protocol = "telnet"
    /\ TimerDue(n)
    /\ UNCHANGED envVars
    /\ Leave(n, "timeout", <<>>, {})

\* network_operations.py:202-205  create_process returned: the session
\* suspends in the initial read_until_prompt
ProcessOk(n) ==
    /\ pc[n] = "process"
    /\ UNCHANGED envVars
    /\ Move(n, "read", 0, 0, FALSE, <<>>, {}, Ticks(PROMPT_TIMEOUT), <<>>)

\* network_operations.py:174-178 / 262-271  an awaited network operation
\* raises an exception other than the three re-raised ones: the session
\* puts an 'error' event, writes the error to the log and returns None
SessionError(n) ==
    /\ AllStarted
    /\ pc[n] \in AwaitPoints \ {"closing"}
    /\ UNCHANGED envVars
    /\ Leave(n, "caught", <<"error">>, {"error"})

\* network_operations.py:86-93  the end of the username/login scan: the
\* buffer is logged; without the cue asyncio.TimeoutError is raised, with it
\* the login id is written and the password scan starts
NegoEnd(n, cue) ==
    IF cue
    THEN Move(n, "pw", 0, 0, FALSE, <<>>, {"received"}, SLICE_TICKS,
              <<Wr("login_id", 0, FALSE)>>)
    ELSE Leave(n, "timeout", <<>>, {"received"})

\* network_operations.py:55-84  a chunk arrives in the username/login scan;
\* cue: the buffer now contains 'username:' or 'login:'
NegoData(n, cue) ==
    /\ pc[n] = "nego"
    /\ UNCHANGED envVars
    /\ IF cue \/ cnt[n] + 1 >= NEGOTIATION_ATTEMPTS
       THEN NegoEnd(n, cue)
       ELSE Move(n, "nego", cnt[n] + 1, 0, FALSE, <<>>, {}, SLICE_TICKS, <<>>)

\* network_operations.py:58-59  the peer closes during the scan: break
NegoEOF(n) ==
    /\ pc[n] = "nego"
    /\ UNCHANGED envVars
    /\ NegoEnd(n, FALSE)

\* network_operations.py:81-82  a slice of 0.5 s passes without data: break
NegoSliceTimeout(n) ==
    /\ pc[n] = "nego"
    /\ TimerDue(n)
    /\ UNCHANGED envVars
    /\ NegoEnd(n, FALSE)

\* network_operations.py:95-110  one iteration of the password scan ends
\* without the cue: the next poll, or after 30 polls asyncio.TimeoutError
PwNext(n) ==
    IF cnt[n] + 1 >= PASSWORD_POLLS
    THEN Leave(n, "timeout", <<>>, {})
    ELSE Move(n, "pw", cnt[n] + 1, 0, FALSE, <<>>, {}, SLICE_TICKS, <<>>)

\* network_operations.py:97-103, 109-111  a chunk arrives in the password
\* scan; with the cue the password is written and the initial prompt read
\* starts
PwData(n, cue) ==
    /\ pc[n] = "pw"
    /\ UNCHANGED envVars
    /\ IF cue
       THEN Move(n, "read", 0, 0, FALSE, <<>>, {}, Ticks(PROMPT_TIMEOUT),
                 <<Wr("password", 0, FALSE)>>)
       ELSE PwNext(n)

\* network_operations.py:98-99, 106-107  the peer closes: break, no cue
PwEOF(n) ==
    /\ pc[n] = "pw"
    /\ UNCHANGED envVars
    /\ Leave(n, "timeout", <<>>, {})

\* network_operations.py:104-105  a slice passes without data: pass
PwSliceTimeout(n) ==
    /\ pc[n] = "pw"
    /\ TimerDue(n)
    /\ UNCHANGED envVars
    /\ PwNext(n)

\* the return of read_until_prompt with 'executing_commands' reported after
\* every read
ReadReturn_ReportsEachRead(n, mk) ==
    LET nx == AfterRead(node[n], step[n], mk)
    IN  Move(n, nx.pc, 0, nx.step, FALSE,
             <<"executing_commands">>,
             {"output"} \cup nx.lines,
             IF nx.pc = "read" THEN Ticks(PROMPT_TIMEOUT)
                               ELSE Ticks(LOGOUT_POLL_TIMEOUT),
             <<nx.wr>>)

\* network_operations.py:111-143 and 145-158  read_until_prompt returned
\* (prompt seen or peer closed) with marker mk: the response is written to
\* the log and run_commands goes on; after the initial read it first reports
\* 'executing_commands'; after the last command the first logout phrase is
\* written
ReadReturn(n, mk) ==
    LET nx == AfterRead(node[n], step[n], mk)
    IN  Move(n, nx.pc, 0, nx.step, FALSE,
             IF step[n] = 0 THEN <<"executing_commands">> ELSE <<>>,
             {"output"} \cup nx.lines,
             IF nx.pc = "read" THEN Ticks(PROMPT_TIMEOUT)
                               ELSE Ticks(LOGOUT_POLL_TIMEOUT),
             <<nx.wr>>)

\* network_operations.py:23-30  a chunk arrives in read_until_prompt;
\* prompt: the last non-blank line of the accumulated output now matches
\* PROMPT_RE; colon: the chunk contains ":"
ReadChunk(n, prompt, colon) ==
    /\ pc[n] = "read"
    /\ UNCHANGED envVars
    /\ IF prompt
       THEN ReadReturn(n, marker[n] \/ colon)
       ELSE Move(n, "read", 0, step[n], marker[n] \/ colon, <<>>, {},
                 Ticks(PROMPT_TIMEOUT), <<>>)

\* network_operations.py:25-26  the peer closes: read_until_prompt returns
\* what it has accumulated
ReadEOF(n) ==
    /\ pc[n] = "read"
    /\ UNCHANGED envVars
    /\ ReadReturn(n, marker[n])

\* ReadTimeout that writes the first logout phrase before it raises
ReadTimeout_WritesExit(n) ==
    /\ pc[n] = "read"
    /\ TimerDue(n)
    /\ UNCHANGED envVars
    /\ pc' = [pc EXCEPT ![n] = "closing"]
    /\ pend' = [pend EXCEPT ![n] = "prompt"]
    /\ cnt' = [cnt EXCEPT ![n] = 0]
    /\ step' = [step EXCEPT ![n] = 0]
    /\ marker' = [marker EXCEPT ![n] = FALSE]
    /\ timer' = [timer EXCEPT ![n] = 0]
    /\ sent' = [sent EXCEPT ![n] = @ \o Written(<<Wr("logout", 1, FALSE)>>)]
    /\ UNCHANGED << cancelled, opened, log, emitted, status_queue, result, done_q >>

\* ReadTimeout that reports the failure on the status queue before it raises
ReadTimeout_ReportsError(n) ==
    /\ pc[n] = "read"
    /\ TimerDue(n)
    /\ UNCHANGED envVars
    /\ Leave(n, "prompt", <<"error">>, {})

\* network_operations.py:31-32  no chunk within the timeout:
\* PromptTimeoutError, re-raised by the session
ReadTimeout(n) ==
    /\ pc[n] = "read"
    /\ TimerDue(n)
    /\ UNCHANGED envVars
    /\ Leave(n, "prompt", <<>>, {})

\* LogoutNext that gives every phrase one poll less
LogoutNext_FourPolls(n, lines) ==
    IF cnt[n] + 1 < LOGOUT_POLLS - 1
    THEN Move(n, "logout", cnt[n] + 1, step[n], FALSE, <<>>, lines,
              Ticks(LOGOUT_POLL_TIMEOUT), <<>>)
    ELSE IF step[n] < LOGOUT_PHRASES
    THEN Move(n, "logout", 0, step[n] + 1, FALSE, <<>>,
              lines \cup {"logout_attempt"}, Ticks(LOGOUT_POLL_TIMEOUT),
              <<Wr("logout", step[n] + 1, FALSE)>>)
    ELSE Leave(n, "logout", <<>>, lines)

\* network_operations.py:156-170  a logout poll ended without EOF: the next
\* poll, after 5 polls the next phrase, after the last phrase
\* LogoutFailedError
LogoutNext(n, lines) ==
    IF cnt[n] + 1 < LOGOUT_POLLS
    THEN Move(n, "logout", cnt[n] + 1, step[n], FALSE, <<>>, lines,
              Ticks(LOGOUT_POLL_TIMEOUT), <<>>)
    ELSE IF step[n] < LOGOUT_PHRASES
    THEN Move(n, "logout", 0, step[n] + 1, FALSE, <<>>,
              lines \cup {"logout_attempt"}, Ticks(LOGOUT_POLL_TIMEOUT),
              <<Wr("logout", step[n] + 1, FALSE)>>)
    ELSE Leave(n, "logout", <<>>, lines)

\* LogoutEOF that returns the log path without reporting 'success'
LogoutEOF_Silent(n) ==
    /\ pc[n] = "logout"
    /\ UNCHANGED envVars
    /\ Leave(n, "ok", <<>>, {"closed"})

\* network_operations.py:162-166  the poll reads EOF: 'success' is reported
\* and the log path returned
LogoutEOF(n) ==
    /\ pc[n] = "logout"
    /\ UNCHANGED envVars
    /\ Leave(n, "ok", <<"success">>, {"closed"})

\* network_operations.py:162-163  the poll reads data: it is dropped
LogoutData(n) ==
    /\ pc[n] = "logout"
    /\ UNCHANGED envVars
    /\ LogoutNext(n, {})

\* network_operations.py:167-169  the poll times out after 3 s
LogoutPollTimeout(n) ==
    /\ pc[n] = "logout"
    /\ TimerDue(n)
    /\ UNCHANGED envVars
    /\ LogoutNext(n, {"waiting"})

\* network_operations.py:183  writer.wait_closed() completes: the session
\* ends the way it was left; a cancelled session ends cancelled and wait_for
\* raises asyncio.TimeoutError
CloseDone(n) ==
    /\ pc[n] = "closing"
    /\ UNCHANGED envVars
    /\ Settle(n, run_node_task_result(pend[n]))
    /\ UNCHANGED << cnt, step, marker, cancelled, opened, log, emitted,
                    status_queue, timer, sent >>

\* network_operations.py:183 and run_cycle.py:213-214  writer.wait_closed()
\* raises (connection reset): the exception replaces the session's outcome
\* and reaches run_node_task.  After a cancellation wait_for raises either
\* asyncio.TimeoutError or the task's exception, depending on the asyncio
\* version: asTimeout chooses
CloseError(n, asTimeout) ==
    /\ pc[n] = "closing"
    /\ asTimeout => cancelled[n]
    /\ UNCHANGED envVars
    /\ Settle(n, run_node_task_result(IF asTimeout THEN "timeout" ELSE "exc"))
    /\ UNCHANGED << cnt, step, marker, cancelled, opened, log, emitted,
                    status_queue, timer, sent >>

\* a cancellation that ends the session task without running its finally
\* clause
BudgetExpire_NoCleanup(n) ==
    /\ AllStarted
    /\ pc[n] \in AwaitPoints
    /\ ~cancelled[n]
    /\ BudgetDue(n)
    /\ UNCHANGED envVars
    /\ cancelled' = [cancelled EXCEPT ![n] = TRUE]
    /\ cnt' = [cnt EXCEPT ![n] = 0]
    /\ step' = [step EXCEPT ![n] = 0]
    /\ marker' = [marker EXCEPT ![n] = FALSE]
    /\ timer' = [timer EXCEPT ![n] = 0]
    /\ UNCHANGED << opened, log, emitted, status_queue, sent >>
    /\ Settle(n, run_node_task_result("cancel"))

\* run_cycle.py:205-208  the TimeoutBudget of n expires: wait_for cancels
\* the session task and waits until the task has ended.  The cancellation is
\* raised at the session's suspension point and runs its finally clause
\* (network_operations.py:179-185): with a connection open the session
\* suspends again in writer.wait_closed(); a session already suspended there,
\* or one without a connection, ends at once
BudgetExpire(n) ==
    /\ AllStarted
    /\ pc[n] \in AwaitPoints
    /\ ~cancelled[n]
    /\ BudgetDue(n)
    /\ UNCHANGED envVars
    /\ cancelled' = [cancelled EXCEPT ![n] = TRUE]
    /\ cnt' = [cnt EXCEPT ![n] = 0]
    /\ step' = [step EXCEPT ![n] = 0]
    /\ marker' = [marker EXCEPT ![n] = FALSE]
    /\ timer' = [timer EXCEPT ![n] = 0]
    /\ UNCHANGED << opened, log, emitted, status_queue, sent >>
    /\ IF opened[n] /\ pc[n] # "closing"
       THEN /\ pc' = [pc EXCEPT ![n] = "closing"]
            /\ pend' = [pend EXCEPT ![n] = "cancel"]
            /\ UNCHANGED << result, done_q >>
       ELSE Settle(n, run_node_task_result("cancel"))

(* ------------------------- the orchestrator ---------------------------- *)

RECURSIVE Applied_NewestFirst(_, _)
\* Applied that takes the events from the tail of the queue
Applied_NewestFirst(st, q) ==
    IF q = <<>> THEN st
    ELSE Applied_NewestFirst([st EXCEPT ![q[Len(q)].node] = q[Len(q)].status],
                             SubSeq(q, 1, Len(q) - 1))

RECURSIVE Applied(_, _)
\* run_cycle.py:74-76  node_statuses after the events of q are applied in
\* queue order
Applied(st, q) ==
    IF q = <<>> THEN st
    ELSE Applied([st EXCEPT ![Head(q).node] = Head(q).status], Tail(q))

\* run_cycle.py:67-76, 216-219  display.update, called by the periodic
\* display_updater while completed_count < total_nodes: the status queue is
\* drained into node_statuses
Update ==
    /\ opc = "loop"
    /\ AllStarted
    /\ completed_count < NumNodes
    /\ status_queue # <<>>
    /\ node_statuses' = Applied(node_statuses, status_queue)
    /\ status_queue' = <<>>
    /\ UNCHANGED << parseVars, cycleVars, wireVars, opens, sent, node, pc, cnt, step, marker, pend, cancelled,
                    opened, log,
                    emitted, result, done_q, completed_count,
                    successful_log_files, processed, archived, opc,
                    timed, detail, now, timer, budgetLeft >>

\* Drain with an early exit: the loop breaks on the first record that carries
\* an error
Drain_BreakOnError ==
    /\ opc = "loop"
    /\ AllStarted
    /\ done_q # <<>>
    /\ LET n == Head(done_q)
           r == result[n]
       IN  /\ processed' = Append(processed, [node |-> n, result |-> r.result,
                                              error |-> r.error])
           /\ completed_count' = completed_count + 1
           /\ node_statuses' = [node_statuses EXCEPT ![n] = classify(r)]
           /\ successful_log_files' =
                IF retains_log(r) THEN Append(successful_log_files, n)
                                  ELSE successful_log_files
           /\ opc' = IF r.error # "none" THEN "done" ELSE opc
    /\ done_q' = Tail(done_q)
    /\ UNCHANGED << parseVars, cycleVars, wireVars, opens, sent, node, pc, cnt, step, marker, pend, cancelled,
                    opened, log,
                    emitted, result, status_queue, archived,
                    timed, detail, now, timer, budgetLeft >>

\* the sequence q without its element n
Without(q, n) == SelectSeq(q, LAMBDA x : x # n)

\* Drain in submission order (`for t in tasks: await t`): the loop waits for
\* the task of the next node of the list
Drain_SubmissionOrder ==
    /\ opc = "loop"
    /\ AllStarted
    /\ completed_count < NumNodes
    /\ LET n == completed_count + 1
           r == result[n]
       IN  /\ pc[n] = "settled"
           /\ processed' = Append(processed, [node |-> n, result |-> r.result,
                                              error |-> r.error])
           /\ completed_count' = completed_count + 1
           /\ node_statuses' = [node_statuses EXCEPT ![n] = classify(r)]
           /\ successful_log_files' =
                IF retains_log(r) THEN Append(successful_log_files, n)
                                  ELSE successful_log_files
           /\ done_q' = Without(done_q, n)
    /\ UNCHANGED << parseVars, cycleVars, wireVars, opens, sent, node, pc, cnt, step, marker, pend, cancelled,
                    opened, log,
                    emitted, result, status_queue, archived, opc,
                    timed, detail, now, timer, budgetLeft >>

\* run_cycle.py:225-240  the completion loop receives the next settled
\* task, in completion order, counts it and classifies it.  `await future`
\* re-raises an exception that run_node_task let through, which ends
\* single_run_mode
Drain ==
    /\ opc = "loop"
    /\ AllStarted
    /\ done_q # <<>>
    /\ LET n == Head(done_q)
           r == result[n]
       IN  IF r.raised
           THEN /\ opc' = "aborted"
                /\ UNCHANGED << processed, completed_count, node_statuses,
                                successful_log_files >>
           ELSE /\ processed' = Append(processed, [node |-> n, result |-> r.result,
                                                   error |-> r.error])
                /\ completed_count' = completed_count + 1
                /\ node_statuses' = [node_statuses EXCEPT ![n] = classify(r)]
                /\ successful_log_files' =
                     IF retains_log(r) THEN Append(successful_log_files, n)
                                       ELSE successful_log_files
                /\ UNCHANGED opc
    /\ done_q' = Tail(done_q)
    /\ UNCHANGED << parseVars, cycleVars, wireVars, opens, sent, node, pc, cnt, step, marker, pend, cancelled,
                    opened, log,
                    emitted, result, status_queue, archived,
                    timed, detail, now, timer, budgetLeft >>

\* Finish as soon as no settled task is waiting, whatever is still pending
Finish_WhenQueueEmpty ==
    /\ opc = "loop"
    /\ AllStarted
    /\ completed_count >= 1
    /\ done_q = <<>>
    /\ node_statuses' = Applied(node_statuses, status_queue)
    /\ status_queue' = <<>>
    /\ archived' = successful_log_files
    /\ opc' = "done"
    /\ UNCHANGED << parseVars, cycleVars, wireVars, opens, sent, node, pc, cnt, step, marker, pend, cancelled,
                    opened, log,
                    emitted, result, done_q, completed_count,
                    successful_log_files, processed,
                    timed, detail, now, timer, budgetLeft >>

\* run_cycle.py:225, 242-258  as_completed is exhausted: the updater is
\* cancelled, display.update runs a last time and the successful log files
\* are handed to create_zip_file
Finish ==
    /\ opc = "loop"
    /\ AllStarted
    /\ completed_count = NumNodes
    /\ node_statuses' = Applied(node_statuses, status_queue)
    /\ status_queue' = <<>>
    /\ archived' = successful_log_files
    /\ opc' = "done"
    /\ UNCHANGED << parseVars, cycleVars, wireVars, opens, sent, node, pc, cnt, step, marker, pend, cancelled,
                    opened, log,
                    emitted, result, done_q, completed_count,
                    successful_log_files, processed,
                    timed, detail, now, timer, budgetLeft >>

(* ------------------------------ the clock ------------------------------ *)

\* one tick of 0.5 s passes.  The event loop runs every ready callback
\* before it waits again, so time passes only when every session is
\* suspended, no expired timer is pending and no settled task is undrained
Tick ==
    /\ timed
    /\ opc = "loop"
    /\ AllStarted
    /\ done_q = <<>>
    /\ completed_count < NumNodes
    /\ now < MaxTime
    /\ \A n \in Nodes : HasTimer(n) => timer[n] > 0
    /\ \A n \in Nodes : (pc[n] \in AwaitPoints /\ ~cancelled[n]) => budgetLeft[n] > 0
    /\ now' = now + 1
    /\ timer' = [n \in Nodes |-> IF HasTimer(n) THEN timer[n] - 1 ELSE timer[n]]
    /\ budgetLeft' = [n \in Nodes |->
                        IF budgetLeft[n] > 0 THEN budgetLeft[n] - 1 ELSE 0]
    /\ UNCHANGED << parseVars, cycleVars, wireVars, opens, sent, node, pc, cnt, step, marker, pend, cancelled,
                    opened, log,
                    emitted, result, status_queue, done_q, orchVars, timed, detail >>

(* -------------------------- specifications ----------------------------- *)

\* run_cycle.py:181-189, 221-224  the state when the tasks have been created
\* no session has run yet: no log file is open
NoFileOpen == opens = [n \in Nodes |-> <<>>]

\* network_operations.py:39, 189  the session of node 1 is under way: it has
\* opened its log file
FileOpen == opens = [n \in Nodes |-> IF n = 1 THEN << log_file_path(n) >> ELSE <<>>]

\* run_cycle.py:159-160 and network_operations.py:36, 187  single-run
\* mode: the completion loop awaits the tasks, the sessions are called
\* without an interval and without a stop event
SingleRun ==
    /\ opc = "loop"
    /\ cycle_interval = -1
    /\ stop_event = FALSE

\* the parser is not running
ParseIdle ==
    /\ file = <<>>
    /\ table = <<>>
    /\ format = "csv"
    /\ col = 0
    /\ nodes = <<>>
    /\ ppos = "idle"

InitCommon ==
    /\ pc = [n \in Nodes |-> "init"]
    /\ cnt = [n \in Nodes |-> 0]
    /\ step = [n \in Nodes |-> 0]
    /\ marker = [n \in Nodes |-> FALSE]
    /\ pend = [n \in Nodes |-> "none"]
    /\ cancelled = [n \in Nodes |-> FALSE]
    /\ opened = [n \in Nodes |-> FALSE]
    /\ log = [n \in Nodes |-> {}]
    /\ emitted = [n \in Nodes |-> <<>>]
    /\ result = [n \in Nodes |-> NoResult]
    /\ status_queue = <<>>
    /\ done_q = <<>>
    /\ node_statuses = [n \in Nodes |-> "pending"]
    /\ completed_count = 0
    /\ successful_log_files = <<>>
    /\ processed = <<>>
    /\ archived = <<>>
    /\ now = 0
    /\ timer = [n \in Nodes |-> 0]
    /\ sent = [n \in Nodes |-> <<>>]

\* the byte-level telnet login is not running
WireIdle ==
    /\ wire = <<>>
    /\ buffer = <<>>
    /\ replies = <<>>
    /\ chunks = <<>>
    /\ scan = "idle"
    /\ negotiation_attempts = 0
    /\ polls = 0
    /\ full_output = <<>>
    /\ log_file = <<>>

Init ==
    /\ node \in [Nodes -> FullProfiles]
    /\ InitCommon
    /\ ParseIdle
    /\ SingleRun
    /\ NoFileOpen
    /\ WireIdle
    /\ timed = FALSE
    /\ detail = FALSE
    /\ budgetLeft = [n \in Nodes |-> 0]

\* run_cycle.py:184-187, 205  every node's timer starts with its TimeoutBudget
InitSilent ==
    /\ node \in {f \in [Nodes -> Profiles] : SameFile(f)}
    /\ InitCommon
    /\ ParseIdle
    /\ SingleRun
    /\ NoFileOpen
    /\ WireIdle
    /\ timed = TRUE
    /\ detail = FALSE
    /\ budgetLeft = [n \in Nodes |-> Ticks(node_timeout(node[n]))]

Next ==
    \/ \E n \in Nodes : Start(n)
    \/ \E n \in Nodes : ConnectOk(n)
    \/ \E n \in Nodes : ConnectTimeout(n)
    \/ \E n \in Nodes : ProcessOk(n)
    \/ \E n \in Nodes : SessionError(n)
    \/ \E n \in Nodes, cue \in BOOLEAN : NegoData(n, cue)
    \/ \E n \in Nodes : NegoEOF(n)
    \/ \E n \in Nodes : NegoSliceTimeout(n)
    \/ \E n \in Nodes, cue \in BOOLEAN : PwData(n, cue)
    \/ \E n \in Nodes : PwEOF(n)
    \/ \E n \in Nodes : PwSliceTimeout(n)
    \/ \E n \in Nodes, prompt \in BOOLEAN, colon \in BOOLEAN : ReadChunk(n, prompt, colon)
    \/ \E n \in Nodes : ReadEOF(n)
    \/ \E n \in Nodes : ReadTimeout(n)
    \/ \E n \in Nodes : LogoutEOF(n)
    \/ \E n \in Nodes : LogoutData(n)
    \/ \E n \in Nodes : LogoutPollTimeout(n)
    \/ \E n \in Nodes : CloseDone(n)
    \/ \E n \in Nodes, asTimeout \in BOOLEAN : CloseError(n, asTimeout)
    \/ \E n \in Nodes : BudgetExpire(n)
    \/ Update
    \/ Drain
    \/ Finish

Spec == Init /\ [][Next]_vars

\* a telnet peer that accepts the connection, or no peer at all, and never
\* sends a byte: the only events are the timers and the local close
SilentConnectOk(n) == node[n].protocol = "telnet" /\ ConnectOk(n)

NextSilent ==
    \/ \E n \in Nodes : Start(n)
    \/ \E n \in Nodes : SilentConnectOk(n)
    \/ \E n \in Nodes : ConnectTimeout(n)
    \/ \E n \in Nodes : NegoSliceTimeout(n)
    \/ \E n \in Nodes : CloseDone(n)
    \/ \E n \in Nodes : BudgetExpire(n)
    \/ Update
    \/ Drain
    \/ Finish
    \/ Tick

SpecSilent == InitSilent /\ [][NextSilent]_vars

\* the profiles of the node whose session is followed step by step
SessionProfiles ==
    {p \in [protocol : {"ssh", "telnet"}, ncmds : 0..MaxSessionCmds,
            addl : 0..2, keys : 0..2] : p.addl <= p.keys}

\* run_cycle.py:194-202  a node with an unknown protocol, from an input
\* file with k additional_command rows: it has no session
NoSession(k) == [protocol |-> "other", ncmds |-> 0, addl |-> 0, keys |-> k]

\* the lists of profiles in which node 1 has a session and the others none
OneSession ==
    {f \in [Nodes -> SessionProfiles \cup {NoSession(k) : k \in 0..2}] :
        /\ f[1] \in SessionProfiles
        /\ \A n \in Nodes \ {1} : f[n] = NoSession(f[1].keys)}

\* one node with a session, every write and log line of which is recorded;
\* the other nodes have no session
InitSession ==
    /\ node \in OneSession
    /\ InitCommon
    /\ ParseIdle
    /\ SingleRun
    /\ NoFileOpen
    /\ WireIdle
    /\ timed = FALSE
    /\ detail = TRUE
    /\ budgetLeft = [n \in Nodes |-> 0]

SpecSession == InitSession /\ [][Next]_vars

\* run_cycle.py:184-187, 205  one node with a session, scripted commands
\* and no follow-up command (an input file without the additional_command
\* rows) under the clock: the timer of every wait and the TimeoutBudget run
\* in ticks
InitTimed ==
    /\ node \in {f \in OneSession : f[1].ncmds >= 1 /\ f[1].keys = 0}
    /\ InitCommon
    /\ ParseIdle
    /\ SingleRun
    /\ NoFileOpen
    /\ WireIdle
    /\ timed = TRUE
    /\ detail = TRUE
    /\ budgetLeft = [n \in Nodes |-> Ticks(node_timeout(node[n]))]

NextTimed == Next \/ Tick

SpecTimed == InitTimed /\ [][NextTimed]_vars

(* --------------------- the telnet login, byte level -------------------- *)

\* every variable of the run except the writes and the byte-level login
runVars == << node, pc, cnt, step, marker, pend, cancelled, opened, log,
              emitted, result, status_queue, done_q, orchVars,
              timed, detail, now, timer, budgetLeft, opens, parseVars,
              cycleVars >>

\* bytes.lower() without the case conversion
Lower_CaseKept(b) == b

\* bytes.lower() / str.lower() on one ASCII byte
Lower(b) == IF b \in 65..90 THEN b + 32 ELSE b

\* the upper-case form of one ASCII byte
Upper(b) == IF b \in 97..122 THEN b - 32 ELSE b

LowerAll(q) == [i \in 1..Len(q) |-> Lower(q[i])]

\* Python's `p in q` on byte strings
Contains(q, p) ==
    \E i \in 0..(Len(q) - Len(p)) : SubSeq(q, i + 1, i + Len(p)) = p

\* network_operations.py:79  b'username:' and b'login:'
LOGIN_CUES == { <<117, 115, 101, 114, 110, 97, 109, 101, 58>>,
                <<108, 111, 103, 105, 110, 58>> }

\* network_operations.py:101  'password:'
PASSWORD_CUE == <<112, 97, 115, 115, 119, 111, 114, 100, 58>>

\* network_operations.py:79, 88  any(p in buffer.lower() for p in [...])
CueSeen(buf) == \E p \in LOGIN_CUES : Contains(LowerAll(buf), p)

\* network_operations.py:101  buffer.decode('utf-8', errors='ignore'): the
\* bytes 0xf8..0xff never occur in UTF-8 and are dropped; the other bytes of
\* the streams considered are ASCII
Decode(q) == SelectSeq(q, LAMBDA b : b < 248)

\* network_operations.py:101  'password:' in buffer.decode(...).lower()
PasswordSeen(buf) == Contains(LowerAll(Decode(buf)), PASSWORD_CUE)

\* network_operations.py:100  chunk.replace(b'\x00', b'')
StripNul(chunk) == SelectSeq(chunk, LAMBDA b : b # 0)

RECURSIVE telnet_parse(_, _, _, _)
\* network_operations.py:60-74  the scan of one chunk from index i (counted
\* from 1): an IAC takes the two bytes after it in this chunk as command and
\* option (empty when the chunk ends before them), answers WILL with DONT
\* and DO with WONT, and skips three places; any other byte is text
telnet_parse(data, i, response, clean_chunk) ==
    IF i > Len(data)
    THEN [response |-> response, clean_chunk |-> clean_chunk]
    ELSE IF data[i] = IAC
    THEN LET command == IF i + 1 <= Len(data) THEN <<data[i + 1]>> ELSE <<>>
             option  == IF i + 2 <= Len(data) THEN <<data[i + 2]>> ELSE <<>>
             answer  == IF command = <<WILL>> THEN <<IAC, DONT>> \o option
                        ELSE IF command = <<DO>> THEN <<IAC, WONT>> \o option
                        ELSE <<>>
         IN  telnet_parse(data, i + 3, response \o answer, clean_chunk)
    ELSE telnet_parse(data, i + 1, response, Append(clean_chunk, data[i]))

\* the options offered by the peer: 1 ECHO, 3 SUPPRESS-GO-AHEAD
Options == {1, 3}

\* the peer's offers IAC WILL x and IAC DO x
Offers == {<<IAC, WILL, o>> : o \in Options} \cup {<<IAC, DO, o>> : o \in Options}

\* q with its first byte in upper case
Capitalized(q) == [i \in 1..Len(q) |-> IF i = 1 THEN Upper(q[i]) ELSE q[i]]

\* q in lower case, capitalized, in upper case and in alternating case
CaseVariants(q) ==
    { q, Capitalized(q),
      [i \in 1..Len(q) |-> Upper(q[i])],
      [i \in 1..Len(q) |-> IF i % 2 = 1 THEN Upper(q[i]) ELSE q[i]] }

\* the login banners of the peer: an optional offer, the login cue in some
\* letter case, an optional offer, the password cue
Streams ==
    { pre \o cue \o mid \o pwc :
        pre \in {<<>>, <<IAC, WILL, 1>>, <<IAC, DO, 3>>},
        cue \in CaseVariants(<<108, 111, 103, 105, 110, 58>>)
                  \cup {Capitalized(<<117, 115, 101, 114, 110, 97, 109, 101, 58>>)},
        mid \in {<<>>, <<IAC, WILL, 1>>},
        pwc \in {Capitalized(PASSWORD_CUE)} }

RECURSIVE SplitAt(_, _)
\* the chunks of stream q cut after the places in C
SplitAt(q, C) ==
    IF C = {}
    THEN <<q>>
    ELSE LET m == CHOOSE c \in C : \A d \in C : c <= d
         IN  <<SubSeq(q, 1, m)>>
                 \o SplitAt(SubSeq(q, m + 1, Len(q)), {c - m : c \in C \ {m}})

\* the ways the transport may divide stream q into at most MaxCuts + 1 reads
Divisions(q) ==
    { SplitAt(q, {f[i] : i \in 1..MaxCuts} \ {0}) :
        f \in [1..MaxCuts -> 0..(Len(q) - 1)] }

\* network_operations.py:55-80, 86-93  one read of the username/login scan
\* returns the next chunk: the replies are written, the text is added to
\* the buffer; with the cue in the buffer the login id is written and the
\* password scan starts with an empty buffer; after 10 iterations without
\* it asyncio.TimeoutError is raised
WireNegoRead ==
    /\ scan = "nego"
    /\ wire # <<>>
    /\ negotiation_attempts < NEGOTIATION_ATTEMPTS
    /\ LET data   == Head(wire)
           parsed == telnet_parse(data, 1, <<>>, <<>>)
           nb     == buffer \o parsed.clean_chunk
       IN  /\ wire' = Tail(wire)
           /\ chunks' = Append(chunks, data)
           /\ replies' = replies \o parsed.response
           /\ negotiation_attempts' = negotiation_attempts + 1
           /\ IF CueSeen(nb)
              THEN /\ scan' = "pw"
                   /\ buffer' = <<>>
                   /\ sent' = [sent EXCEPT ![1] = Append(@, Wr("login_id", 0, FALSE))]
              ELSE /\ scan' = IF negotiation_attempts + 1 >= NEGOTIATION_ATTEMPTS
                              THEN "nego_failed" ELSE "nego"
                   /\ buffer' = nb
                   /\ UNCHANGED sent
    /\ UNCHANGED << polls, runVars, transcriptVars >>

\* network_operations.py:58-59, 81-82, 88-89  the read returns EOF or the
\* slice of 0.5 s passes before the next chunk: break, and without the cue
\* asyncio.TimeoutError
WireNegoBreak ==
    /\ scan = "nego"
    /\ scan' = "nego_failed"
    /\ negotiation_attempts' = negotiation_attempts + 1
    /\ UNCHANGED << wire, buffer, replies, chunks, polls, sent, runVars, transcriptVars >>

\* network_operations.py:95-110  one read of the password scan returns the
\* next chunk: it is added to the buffer without its NUL bytes; with the
\* cue the password is written
WirePwRead ==
    /\ scan = "pw"
    /\ wire # <<>>
    /\ LET chunk == Head(wire)
           nb    == buffer \o StripNul(chunk)
       IN  /\ wire' = Tail(wire)
           /\ chunks' = Append(chunks, chunk)
           /\ buffer' = nb
           /\ polls' = polls + 1
           /\ IF PasswordSeen(nb)
              THEN /\ scan' = "done"
                   /\ sent' = [sent EXCEPT ![1] = Append(@, Wr("password", 0, FALSE))]
              ELSE /\ scan' = IF polls + 1 >= PASSWORD_POLLS THEN "pw_failed" ELSE "pw"
                   /\ UNCHANGED sent
    /\ UNCHANGED << replies, negotiation_attempts, runVars, transcriptVars >>

\* network_operations.py:104-107  a slice of the password scan passes
\* without data: the next poll, after 30 polls asyncio.TimeoutError
WirePwSliceTimeout ==
    /\ scan = "pw"
    /\ polls' = polls + 1
    /\ scan' = IF polls + 1 >= PASSWORD_POLLS THEN "pw_failed" ELSE "pw"
    /\ UNCHANGED << wire, buffer, replies, chunks, negotiation_attempts, sent, runVars, transcriptVars >>

\* network_operations.py:98-99, 106-107  the peer closes after its last
\* chunk: break, asyncio.TimeoutError
WirePwEOF ==
    /\ scan = "pw"
    /\ wire = <<>>
    /\ scan' = "pw_failed"
    /\ UNCHANGED << wire, buffer, replies, chunks, negotiation_attempts, polls,
                    sent, runVars, transcriptVars >>

\* network_operations.py:50-54  node 1 is a telnet node at the start of its
\* login sequence; the peer's banner and its division into reads are chosen
InitWire ==
    /\ node = [n \in Nodes |-> IF n = 1
                               THEN [protocol |-> "telnet", ncmds |-> 0,
                                     addl |-> 0, keys |-> 0]
                               ELSE NoSession(0)]
    /\ InitCommon
    /\ ParseIdle
    /\ SingleRun
    /\ FileOpen
    /\ timed = FALSE
    /\ detail = TRUE
    /\ budgetLeft = [n \in Nodes |-> 0]
    /\ wire \in UNION {Divisions(q) : q \in Streams}
    /\ buffer = <<>>
    /\ replies = <<>>
    /\ chunks = <<>>
    /\ scan = "nego"
    /\ negotiation_attempts = 0
    /\ polls = 0
    /\ full_output = <<>>
    /\ log_file = <<>>

NextWire ==
    \/ WireNegoRead
    \/ WireNegoBreak
    \/ WirePwRead
    \/ WirePwSliceTimeout
    \/ WirePwEOF

SpecWire == InitWire /\ [][NextWire]_vars

(* ------------------- the transcript, byte level ------------------------ *)

\* Follows one logged-in session through its reads, its log file and its
\* logout at the level of bytes: the transport (wire, chunks), the buffer of
\* the running read_until_prompt (full_output), the writes (sent) and the log
\* file (log_file); scan is the position of the session.  The run-level
\* position and the status events of a session are those followed in Spec.

\* the whitespace of bytes.strip() and of \s in a bytes pattern
IsSpace(b) == b \in {9, 10, 11, 12, 13, 32}

\* network_operations.py:13  the prompt terminators > # $
Terminators == {62, 35, 36}

RECURSIVE splitlines(_)
\* network_operations.py:28  bytes.splitlines(): the lines of q, broken at
\* \n, \r and \r\n, without the line breaks
splitlines(q) ==
    IF q = <<>>
    THEN <<>>
    ELSE LET brk == {i \in 1..Len(q) : q[i] \in {10, 13}}
         IN  IF brk = {}
             THEN <<q>>
             ELSE LET i    == CHOOSE x \in brk : \A y \in brk : x <= y
                      skip == IF q[i] = 13 /\ i < Len(q) /\ q[i + 1] = 10
                              THEN 2 ELSE 1
                  IN  <<SubSeq(q, 1, i - 1)>>
                          \o splitlines(SubSeq(q, i + skip, Len(q)))

\* PROMPT_RE without the token before the terminator: [>#$]\s*$
PROMPT_RE_search_NoToken(line) ==
    \E j \in 1..Len(line) :
        /\ line[j] \in Terminators
        /\ \A k \in (j + 1)..Len(line) : IsSpace(line[k])

\* network_operations.py:13, 29  PROMPT_RE.search(line) for \S+[>#$]\s*$ :
\* a run of non-space bytes, a terminator, then only whitespace to the end
PROMPT_RE_search(line) ==
    \E i \in 1..Len(line) : \E j \in (i + 1)..Len(line) :
        /\ \A k \in i..(j - 1) : ~IsSpace(line[k])
        /\ line[j] \in Terminators
        /\ \A k \in (j + 1)..Len(line) : IsSpace(line[k])

\* network_operations.py:28-29  the verdict of the prompt test on the
\* accumulated output: the last line that is not blank matches PROMPT_RE
PromptFound(out) ==
    LET non_empty_lines ==
            SelectSeq(splitlines(out),
                      LAMBDA line : \E i \in 1..Len(line) : ~IsSpace(line[i]))
    IN  /\ non_empty_lines # <<>>
        /\ PROMPT_RE_search(non_empty_lines[Len(non_empty_lines)])

\* the bytes the device sends: a letter, '>', a space, a line feed, a
\* carriage return and 0xff, which occurs in no UTF-8 text
DeviceBytes == {97, 62, 32, 10, 13, 255}

\* the byte strings of length 1..n over DeviceBytes
DeviceStreams(n) == UNION {[1..k -> DeviceBytes] : k \in 1..n}

\* one write to the log file: device output (text), or one of the session's
\* own lines
LogEntry(kind, text) == [kind |-> kind, text |-> text]

\* the number of the scripted command the session writes next
NextCommand == Len(SelectSeq(sent[1], LAMBDA e : e.w = "cmd")) + 1

\* read_until_prompt that returns the last chunk read instead of the
\* accumulated output
Returns_LastChunkOnly(out, chunk) ==
    LET text == Decode(chunk)
    IN  IF NextCommand <= node[1].ncmds
        THEN /\ log_file' = log_file \o <<LogEntry("output", text), LogEntry("sending", <<>>)>>
             /\ sent' = [sent EXCEPT ![1] = Append(@, Wr("cmd", NextCommand, FALSE))]
             /\ scan' = "read"
        ELSE /\ log_file' = log_file \o <<LogEntry("output", text), LogEntry("logout_attempt", <<>>)>>
             /\ sent' = [sent EXCEPT ![1] = Append(@, Wr("logout", 1, FALSE))]
             /\ scan' = "logout"

\* network_operations.py:34, 111-113, 136-143, 155-158 (203-205, 226-232,
\* 244-247)  read_until_prompt returns out, of which chunk was read last:
\* the decoded output is written to the log, then the next scripted command
\* is announced in the log and written, or after the last one the first
\* logout phrase
Returns(out, chunk) ==
    LET text == Decode(out)
    IN  IF NextCommand <= node[1].ncmds
        THEN /\ log_file' = log_file \o <<LogEntry("output", text), LogEntry("sending", <<>>)>>
             /\ sent' = [sent EXCEPT ![1] = Append(@, Wr("cmd", NextCommand, FALSE))]
             /\ scan' = "read"
        ELSE /\ log_file' = log_file \o <<LogEntry("output", text), LogEntry("logout_attempt", <<>>)>>
             /\ sent' = [sent EXCEPT ![1] = Append(@, Wr("logout", 1, FALSE))]
             /\ scan' = "logout"

loginVars == << buffer, replies, negotiation_attempts >>

\* the prompt test made on the chunk just read instead of the accumulated
\* output
ReadUntilPromptChunk_TestsChunk ==
    /\ scan = "read"
    /\ wire # <<>>
    /\ LET chunk == Head(wire)
           out   == full_output \o chunk
       IN  /\ wire' = Tail(wire)
           /\ chunks' = Append(chunks, chunk)
           /\ IF PromptFound(chunk)
              THEN /\ Returns(out, chunk)
                   /\ full_output' = <<>>
              ELSE /\ full_output' = out
                   /\ UNCHANGED << log_file, sent, scan >>
    /\ UNCHANGED << polls, loginVars, runVars >>

\* read_until_prompt that keeps the chunk just read in place of the
\* accumulated output
ReadUntilPromptChunk_Overwrites ==
    /\ scan = "read"
    /\ wire # <<>>
    /\ LET chunk == Head(wire)
           out   == chunk
       IN  /\ wire' = Tail(wire)
           /\ chunks' = Append(chunks, chunk)
           /\ IF PromptFound(out)
              THEN /\ Returns(out, chunk)
                   /\ full_output' = <<>>
              ELSE /\ full_output' = out
                   /\ UNCHANGED << log_file, sent, scan >>
    /\ UNCHANGED << polls, loginVars, runVars >>

\* network_operations.py:24-30  a chunk arrives in read_until_prompt: it is
\* added to full_output; when the prompt test on full_output succeeds the
\* read returns
ReadUntilPromptChunk ==
    /\ scan = "read"
    /\ wire # <<>>
    /\ LET chunk == Head(wire)
           out   == full_output \o chunk
       IN  /\ wire' = Tail(wire)
           /\ chunks' = Append(chunks, chunk)
           /\ IF PromptFound(out)
              THEN /\ Returns(out, chunk)
                   /\ full_output' = <<>>
              ELSE /\ full_output' = out
                   /\ UNCHANGED << log_file, sent, scan >>
    /\ UNCHANGED << polls, loginVars, runVars >>

\* read_until_prompt that treats the closed connection as a failure
ReadUntilPromptEOF_Raises ==
    /\ scan = "read"
    /\ wire = <<>>
    /\ scan' = "prompt_timeout"
    /\ full_output' = <<>>
    /\ UNCHANGED << wire, chunks, log_file, sent, polls, loginVars, runVars >>

\* network_operations.py:25-26, 34  the peer has closed after its last
\* chunk: the read returns b'', the loop is left and read_until_prompt
\* returns what it has accumulated
ReadUntilPromptEOF ==
    /\ scan = "read"
    /\ wire = <<>>
    /\ Returns(full_output, <<>>)
    /\ full_output' = <<>>
    /\ UNCHANGED << wire, chunks, polls, loginVars, runVars >>

\* network_operations.py:31-32, 172-173  no chunk arrives within the
\* timeout: PromptTimeoutError leaves read_until_prompt, and with it
\* full_output, and is re-raised by the session
ReadUntilPromptTimeout ==
    /\ scan = "read"
    /\ scan' = "prompt_timeout"
    /\ full_output' = <<>>
    /\ UNCHANGED << wire, chunks, log_file, sent, polls, loginVars, runVars >>

\* run_cycle.py:205-208  the TimeoutBudget expires while the session reads
\* or polls: the session task is cancelled at its suspension point
TranscriptCancel ==
    /\ scan \in {"read", "logout"}
    /\ scan' = "cancelled"
    /\ full_output' = <<>>
    /\ UNCHANGED << wire, chunks, log_file, sent, polls, loginVars, runVars >>

\* network_operations.py:156-170  a logout poll ended without EOF and wrote
\* `lines` to the log: the next poll, after 5 polls the second phrase, after
\* 10 polls LogoutFailedError
LogoutPollNext(lines) ==
    /\ polls' = polls + 1
    /\ IF polls + 1 = LOGOUT_POLLS
       THEN /\ log_file' = log_file \o lines \o <<LogEntry("logout_attempt", <<>>)>>
            /\ sent' = [sent EXCEPT ![1] = Append(@, Wr("logout", 2, FALSE))]
            /\ scan' = "logout"
       ELSE /\ log_file' = log_file \o lines
            /\ scan' = IF polls + 1 >= LOGOUT_PHRASES * LOGOUT_POLLS
                       THEN "logout_failed" ELSE "logout"
            /\ UNCHANGED sent

\* network_operations.py:162-166  the poll reads b'': the peer has closed,
\* the session notes it in the log and returns the log path
LogoutPollEOF ==
    /\ scan = "logout"
    /\ wire = <<>>
    /\ scan' = "success"
    /\ log_file' = Append(log_file, LogEntry("closed", <<>>))
    /\ UNCHANGED << wire, chunks, full_output, sent, polls, loginVars, runVars >>

\* network_operations.py:162-163  the poll reads a chunk: it is dropped
LogoutPollData ==
    /\ scan = "logout"
    /\ wire # <<>>
    /\ wire' = Tail(wire)
    /\ chunks' = Append(chunks, Head(wire))
    /\ LogoutPollNext(<<>>)
    /\ UNCHANGED << full_output, loginVars, runVars >>

\* network_operations.py:167-169  the poll times out after 3 s
LogoutPollExpire ==
    /\ scan = "logout"
    /\ LogoutPollNext(<<LogEntry("waiting", <<>>)>>)
    /\ UNCHANGED << wire, chunks, full_output, loginVars, runVars >>

\* network_operations.py:111 / 203  node 1 has logged in and calls
\* read_until_prompt for the initial prompt; what the device will send, and
\* in which chunks, is chosen.  The node has scripted commands only (an
\* input file without the additional_command rows)
InitTranscript ==
    /\ node \in {f \in OneSession : /\ f[1].protocol = "ssh"
                                    /\ f[1].ncmds <= MaxCmds
                                    /\ f[1].keys = 0}
    /\ InitCommon
    /\ ParseIdle
    /\ SingleRun
    /\ FileOpen
    /\ timed = FALSE
    /\ detail = TRUE
    /\ budgetLeft = [n \in Nodes |-> 0]
    /\ wire \in {<<>>} \cup UNION {Divisions(q) : q \in DeviceStreams(MaxStreamLen)}
    /\ buffer = <<>>
    /\ replies = <<>>
    /\ chunks = <<>>
    /\ scan = "read"
    /\ negotiation_attempts = 0
    /\ polls = 0
    /\ full_output = <<>>
    /\ log_file = <<>>

NextTranscript ==
    \/ ReadUntilPromptChunk
    \/ ReadUntilPromptEOF
    \/ ReadUntilPromptTimeout
    \/ TranscriptCancel
    \/ LogoutPollEOF
    \/ LogoutPollData
    \/ LogoutPollExpire

SpecTranscript == InitTranscript /\ [][NextTranscript]_vars

(* ------------------------- the config parsers -------------------------- *)

\* the ASCII characters str.strip() removes
IsStrSpace(c) == c \in (9..13) \cup (28..32)

RECURSIVE lstrip(_)
lstrip(q) == IF q # <<>> /\ IsStrSpace(Head(q)) THEN lstrip(Tail(q)) ELSE q

RECURSIVE rstrip(_)
rstrip(q) ==
    IF q # <<>> /\ IsStrSpace(q[Len(q)]) THEN rstrip(SubSeq(q, 1, Len(q) - 1)) ELSE q

\* config_parsers.py:27, 97  str.strip()
strip(q) == rstrip(lstrip(q))

\* the nodename cells: up to MaxCellLen characters, each a space or 'a'
NameCells == UNION {[1..k -> {32, 97}] : k \in 0..MaxCellLen}

\* 'ssh'
SSH == << 115, 115, 104 >>

\* 'telnet'
TELNET == << 116, 101, 108, 110, 101, 116 >>

\* the protocol cells: empty, 'ssh', 'telnet', ' ssh' and 'rsh'
ProtocolCells == {<<>>, SSH, TELNET, << 32 >> \o SSH, << 114, 115, 104 >>}

\* the cells of the command rows: empty, a space or 'a'
CommandCells == {<<>>, << 32 >>, << 97 >>}

\* a node column of the input file: its cells in the nodename row, the
\* protocol row and the command rows
Columns == [nodename : NameCells, protocol : ProtocolCells,
            commands : [1..MaxCommandRows -> CommandCells]]

Tables == UNION {[1..k -> Columns] : k \in 0..MaxColumns}

\* config_parsers.py:73-82  the fill-right of one row, from data column i
\* on: a cell that is empty after strip takes the last value seen
RECURSIVE fill_right(_, _, _)
fill_right(row, i, last_value) ==
    IF i > Len(row)
    THEN row
    ELSE IF strip(row[i]) = <<>>
         THEN fill_right([row EXCEPT ![i] = last_value], i + 1, last_value)
         ELSE fill_right(row, i + 1, row[i])

\* config_parsers.py:73-82  a row filled; last_value starts as the cell of
\* the first data column
FilledRow(row) == IF Len(row) > 0 THEN fill_right(row, 2, row[1]) ELSE row

\* config_parsers.py:67-87  the sheet with every row filled to the right
FillRight(t) ==
    LET cols == 1..Len(t)
        names == FilledRow([c \in cols |-> t[c].nodename])
        protocols == FilledRow([c \in cols |-> t[c].protocol])
        cmds(k) == FilledRow([c \in cols |-> t[c].commands[k]])
    IN  [c \in cols |-> [nodename |-> names[c], protocol |-> protocols[c],
                         commands |-> [k \in 1..MaxCommandRows |-> cmds(k)[c]]]]

\* config_parsers.py:29-34  the stripped cells of the command rows up to the
\* first empty one: commands_ended is never reset
RECURSIVE commands(_)
commands(cells) ==
    IF cells = <<>> \/ strip(Head(cells)) = <<>>
    THEN <<>>
    ELSE << strip(Head(cells)) >> \o commands(Tail(cells))

\* config_parsers.py:22-36  node_info of a column: the stripped cells of the
\* config rows under their headers, and the commands
node_info(column) ==
    [nodename |-> strip(column.nodename), protocol |-> strip(column.protocol),
     commands |-> commands(column.commands)]

nonParseVars == << node, pc, cnt, step, marker, pend, cancelled, opened, log,
                   emitted, result, status_queue, done_q, orchVars, timed,
                   detail, now, timer, budgetLeft, sent, opens, wireVars,
                   cycleVars >>

\* config_parsers.py:13-19 / 57-89  the file is read and transposed; an
\* Excel sheet is filled to the right first
ParseStart ==
    /\ ppos = "start"
    /\ table' = IF format = "excel" THEN FillRight(table) ELSE table
    /\ col' = 1
    /\ nodes' = <<>>
    /\ ppos' = "columns"
    /\ UNCHANGED << file, format, nonParseVars >>

\* config_parsers.py:41-46 / 111-116  the file is missing or cannot be
\* read: the parser prints the error and returns None
ParseFails ==
    /\ ppos = "start"
    /\ ppos' = "none"
    /\ UNCHANGED << file, table, format, col, nodes, nonParseVars >>

\* config_parsers.py:21-39 / 91-109  one column: its node_info is appended
\* when its nodename is not empty
ParseColumn ==
    /\ ppos = "columns"
    /\ col <= Len(table)
    /\ nodes' = IF node_info(table[col]).nodename # <<>>
                THEN Append(nodes, node_info(table[col]))
                ELSE nodes
    /\ col' = col + 1
    /\ UNCHANGED << file, table, format, ppos, nonParseVars >>

\* config_parsers.py:47 / 117  return nodes
ParseReturn ==
    /\ ppos = "columns"
    /\ col > Len(table)
    /\ ppos' = "returned"
    /\ UNCHANGED << file, table, format, col, nodes, nonParseVars >>

\* a parser is called on a file of either format
InitParse ==
    /\ node = [n \in Nodes |-> NoSession(0)]
    /\ InitCommon
    /\ SingleRun
    /\ NoFileOpen
    /\ WireIdle
    /\ timed = FALSE
    /\ detail = FALSE
    /\ budgetLeft = [n \in Nodes |-> 0]
    /\ file \in Tables
    /\ table = file
    /\ format \in {"csv", "excel"}
    /\ col = 0
    /\ nodes = <<>>
    /\ ppos = "start"

NextParse ==
    \/ ParseStart
    \/ ParseFails
    \/ ParseColumn
    \/ ParseReturn

SpecParse == InitParse /\ [][NextParse]_vars

(* ------------------------------- claims -------------------------------- *)

TerminalStatuses == {"success", "error", "timeout", "no_prompt", "logout_failed"}

\* the node names of the records in a sequence of records
RecordNodes(q) == [i \in 1..Len(q) |-> q[i].node]

\* how often node n occurs among the records of q
Occurrences(q, n) == Cardinality({i \in 1..Len(q) : q[i].node = n})

\* C1: when the completion loop has finished, it has received exactly one
\* record (node name, result, error) per submitted node, the one that node's
\* run_node_task returned, and completed_count is the number of nodes
C1_OneRecordPerNode ==
    opc = "done" =>
        /\ completed_count = NumNodes
        /\ Len(processed) = NumNodes
        /\ \A n \in Nodes :
              /\ Occurrences(processed, n) = 1
              /\ \A i \in 1..Len(processed) :
                    processed[i].node = n =>
                        /\ processed[i].result = result[n].result
                        /\ processed[i].error = result[n].error

\* C1 witness: a finished run of three different outcomes: one node timed
\* out, the other returned its log path
C1_Witness ==
    /\ opc = "done"
    /\ \E a, b \in Nodes :
          /\ a # b
          /\ node[a].protocol # node[b].protocol
          /\ result[a].error = "TimeoutError"
          /\ result[b].result = "path"

\* C3: the loop is left only when every session has settled and every
\* completion has been drained; the counter equals the number of records
\* drained at every moment
C3_DrainsAll ==
    /\ completed_count = Len(processed)
    /\ opc = "done" =>
          /\ \A n \in Nodes : pc[n] = "settled"
          /\ done_q = <<>>
          /\ completed_count = NumNodes

\* C3 witness: the first record drained was a failure, and the loop went on
\* to drain a success before it finished
C3_Witness ==
    /\ opc = "done"
    /\ Len(processed) = NumNodes
    /\ processed[1].error \in {"TimeoutError", "PromptTimeoutError", "other"}
    /\ processed[NumNodes].result = "path"

\* C4: no session passes its connect before every task has been started;
\* whenever a settled task is waiting, the loop can drain it, whatever the
\* other sessions are doing; and the record drained is always the one that
\* settled first
C4_CompletionOrder ==
    /\ [] ( /\ (\E n \in Nodes : pc[n] \in AwaitPoints \ {"connect"}) => AllStarted
            /\ (opc = "loop" /\ AllStarted /\ done_q # <<>>) => ENABLED Drain )
    /\ [][ Len(processed') = Len(processed) + 1 =>
              /\ done_q # <<>>
              /\ processed'[Len(processed')].node = Head(done_q) ]_vars

\* C4 witness: the second node of the list has been drained while the first
\* is still suspended in its session
C4_Witness ==
    /\ NumNodes >= 2
    /\ Len(processed) = 1
    /\ processed[1].node = 2
    /\ node[2].protocol \in {"ssh", "telnet"}
    /\ pc[1] \in AwaitPoints \ {"connect"}

\* C5: no exception leaves run_node_task: every settled task holds a record,
\* whose error names the fault, and the completion loop is never ended by an
\* exception
C5_FaultsBecomeRecords ==
    /\ opc # "aborted"
    /\ \A n \in Nodes :
          pc[n] = "settled" =>
              /\ ~result[n].raised
              /\ result[n].result \in {"path", "none"}
              /\ result[n].error \in {"none", "TimeoutError", "PromptTimeoutError",
                                      "LogoutFailedError", "other"}

\* C5 witness: an exception raised by the cleanup of one session reached
\* run_node_task, and the run finished with another node's success
C5_Witness ==
    /\ opc = "done"
    /\ \E a, b \in Nodes :
          /\ a # b
          /\ opened[a]
          /\ result[a].error = "other"
          /\ result[b].result = "path"

\* the largest TimeoutBudget of the submitted nodes, in ticks
LargestBudget ==
    LET B == {Ticks(node_timeout(node[n])) : n \in Nodes}
    IN  CHOOSE b \in B : \A c \in B : c <= b

\* C2 (specification SpecSilent: every device is silent from the start): a
\* session always ends with asyncio.TimeoutError and is classified timeout;
\* it is never unsettled after its TimeoutBudget; the run is never stuck
\* before the loop has finished, and the clock never passes the largest
\* TimeoutBudget of the batch, whatever the number of nodes
C2_SilentEndsTimeout ==
    /\ \A n \in Nodes :
          node[n].protocol # "other" =>
              /\ pc[n] = "settled" => result[n] = Returned("none", "TimeoutError")
              /\ pc[n] # "settled" => now <= Ticks(node_timeout(node[n]))
              /\ \A i \in 1..Len(processed) :
                    processed[i].node = n => classify(processed[i]) = "timeout"
    /\ now <= LargestBudget
    /\ opc = "done" \/ ENABLED NextSilent

\* C2 witness: a finished run that lasted exactly the largest budget: an ssh
\* session was cancelled by its timer, a telnet session gave up by itself
\* after the first silent slice
C2_Witness ==
    /\ opc = "done"
    /\ now = LargestBudget
    /\ \E a, b \in Nodes :
          /\ node[a].protocol = "ssh" /\ cancelled[a]
          /\ node[b].protocol = "telnet" /\ opened[b] /\ ~cancelled[b]
          /\ result[a].error = "TimeoutError"
          /\ result[b].error = "TimeoutError"

\* the number of terminal-state events ('success', 'error') node n has put on
\* the status queue
TerminalEvents(n) ==
    Cardinality({i \in 1..Len(emitted[n]) : emitted[n][i] \in TerminalStatuses})

StatusRank(st) ==
    CASE st = "pending"            -> 0
      [] st = "connecting"         -> 1
      [] st = "authenticating"     -> 2
      [] st = "executing_commands" -> 3
      [] OTHER                     -> 4

\* C7: the status recorded for a node never moves to an earlier lifecycle
\* state and never changes once it is terminal
C7_StatusMovesForward ==
    [][ \A n \in Nodes :
           /\ StatusRank(node_statuses'[n]) >= StatusRank(node_statuses[n])
           /\ node_statuses[n] \in TerminalStatuses
                 => node_statuses'[n] = node_statuses[n] ]_vars

\* C8: a record is classified success only if it carries the log path the
\* session returned after the logout EOF
C8_SuccessOnlyWithLogPath ==
    \A i \in 1..Len(processed) :
        classify(processed[i]) = "success" =>
            /\ processed[i].result = "path"
            /\ emitted[processed[i].node][Len(emitted[processed[i].node])] = "success"

\* whether n occurs in the sequence q
InSeq(q, n) == \E i \in 1..Len(q) : q[i] = n

\* the session of n wrote device output to its log and ended success,
\* logout-failed, prompt-timeout or overall-timeout
ProducedTranscript(n) ==
    /\ "output" \in log[n]
    /\ \/ result[n].result = "path"
       \/ result[n].error \in {"LogoutFailedError", "PromptTimeoutError",
                               "TimeoutError"}

C10_SettledAtExpiry ==
    \A n \in Nodes :
        cancelled[n] => /\ pc[n] = "settled"
                        /\ result[n].error = "TimeoutError"

\* the session of n wrote something to the transport in this step
Wrote(n) == sent'[n] # sent[n]

\* the session of n gave up a read_until_prompt with PromptTimeoutError and
\* is in its cleanup
PromptTimedOut(n) == pc[n] = "closing" /\ pend[n] = "prompt"

WriteRank(p, e) ==
    CASE e.w = "login_id" -> 0
      [] e.w = "password" -> 1
      [] e.w = "addl"     -> 1 + e.k
      [] e.w = "cmd"      -> 3 + e.k
      [] OTHER            -> 3 + p.ncmds + e.k

\* the number of times status st occurs in the events of n
TimesEmitted(n, st) ==
    Cardinality({i \in 1..Len(emitted[n]) : emitted[n][i] = st})

\* C13: the writes of a session follow the script order, each at most once
\* (login id, password, follow-ups, scripted commands 1..N, logout phrases);
\* scripted command k+1 directly follows command k and is written in the
\* step in which the read of command k returns; every write is a single
\* step from a read or a logout poll; no lifecycle status is reported twice
C13_AtMostOnceInOrder ==
    /\ [](\A n \in Nodes :
             /\ \A i, j \in 1..Len(sent[n]) :
                   i < j => WriteRank(node[n], sent[n][i]) < WriteRank(node[n], sent[n][j])
             /\ \A i \in 1..Len(sent[n]) :
                   sent[n][i].w = "cmd" =>
                       /\ sent[n][i].k \in 1..node[n].ncmds
                       /\ sent[n][i].k > 1 =>
                             (i > 1 /\ sent[n][i-1] = Wr("cmd", sent[n][i].k - 1, FALSE))
             /\ \A st \in {"connecting", "authenticating", "executing_commands",
                           "success", "error"} : TimesEmitted(n, st) <= 1)
    /\ [][ \A n \in Nodes :
              Wrote(n) =>
                  /\ Len(sent'[n]) = Len(sent[n]) + 1
                  /\ SubSeq(sent'[n], 1, Len(sent[n])) = sent[n]
                  /\ LET e == sent'[n][Len(sent'[n])]
                     IN  /\ e.w \in {"addl", "cmd"} => pc[n] = "read" /\ pc'[n] = "read"
                         /\ (e.w = "cmd" /\ e.k > 1) => step[n] = e.k + 1
                         /\ (e.w = "cmd" /\ e.k = 1) => step[n] \in 0..2
                         /\ e.w \in {"addl", "cmd"} => step'[n] > step[n] ]_vars

\* C13 witness: a telnet session with both follow-ups and two scripted
\* commands that wrote its whole script and both logout phrases
C13_Witness ==
    \E n \in Nodes :
        /\ pc[n] = "settled"
        /\ node[n] = [protocol |-> "telnet", ncmds |-> 2, addl |-> 2, keys |-> 2]
        /\ Len(sent[n]) = 8
        /\ sent[n][5] = Wr("cmd", 1, FALSE)
        /\ sent[n][6] = Wr("cmd", 2, FALSE)

\* C14: a follow-up command is written only when the response read
\* immediately before it contained the marker ":"
C14_FollowUpsNeedMarker ==
    \A n \in Nodes :
        \A i \in 1..Len(sent[n]) : sent[n][i].w = "addl" => sent[n][i].mk

\* the last write of n
LastSent(n) == sent[n][Len(sent[n])]

\* C15: the first logout phrase is written when the script is exhausted, the
\* second only when the fifth poll after the first ends without EOF;
\* 'success' is reported exactly in the step in which a logout poll reads
\* EOF, which writes nothing more and leaves the session with its log path;
\* the session raises LogoutFailedError only when the fifth poll after the
\* second phrase ends without EOF
C15_LogoutSequence ==
    /\ [](\A n \in Nodes :
             /\ pc[n] = "logout" =>
                   /\ step[n] \in 1..LOGOUT_PHRASES
                   /\ cnt[n] \in 0..(LOGOUT_POLLS - 1)
                   /\ sent[n] # <<>>
                   /\ LastSent(n) = Wr("logout", step[n], FALSE)
             /\ (pc[n] = "closing" /\ pend[n] = "ok") =>
                   /\ emitted[n][Len(emitted[n])] = "success"
                   /\ LastSent(n).w = "logout"
             /\ (pc[n] = "closing" /\ pend[n] = "logout") =>
                   /\ LastSent(n) = Wr("logout", LOGOUT_PHRASES, FALSE)
                   /\ TimesEmitted(n, "success") = 0)
    /\ [][ \A n \in Nodes :
              /\ (Wrote(n) /\ sent'[n][Len(sent'[n])] = Wr("logout", 1, FALSE))
                    => pc[n] = "read" /\ pc'[n] = "logout"
              /\ (Wrote(n) /\ sent'[n][Len(sent'[n])] = Wr("logout", 2, FALSE))
                    => pc[n] = "logout" /\ step[n] = 1 /\ cnt[n] = LOGOUT_POLLS - 1
              /\ TimesEmitted(n, "success")' # TimesEmitted(n, "success")
                    => /\ pc[n] = "logout"
                       /\ pc'[n] = "closing" /\ pend'[n] = "ok"
                       /\ ~Wrote(n)
              /\ (pc[n] = "logout" /\ pc'[n] = "closing" /\ pend'[n] = "ok")
                    => "closed" \in log'[n]
              /\ (pc'[n] = "closing" /\ pend'[n] = "logout" /\ pc[n] # "closing")
                    => /\ pc[n] = "logout"
                       /\ step[n] = LOGOUT_PHRASES
                       /\ cnt[n] = LOGOUT_POLLS - 1
              /\ (/\ pc[n] = "logout"
                  /\ step[n] = LOGOUT_PHRASES
                  /\ cnt[n] = LOGOUT_POLLS - 1
                  /\ LogoutData(n) \/ LogoutPollTimeout(n))
                    => pc'[n] = "closing" /\ pend'[n] = "logout" ]_vars

\* C15 witness: a session that succeeded on a poll after the second phrase
C15_Witness ==
    \E n \in Nodes :
        /\ pc[n] = "settled"
        /\ result[n] = Returned("path", "none")
        /\ LastSent(n) = Wr("logout", 2, FALSE)
        /\ "waiting" \in log[n]

\* C18: a slice of a login cue scan in which no data arrives does not end
\* the scan while polls are left: the session stays in the scan
C18_SilentSliceKeepsScanning ==
    [][ \A n \in Nodes :
           /\ (NegoSliceTimeout(n) /\ cnt[n] + 1 < NEGOTIATION_ATTEMPTS)
                 => pc'[n] = "nego"
           /\ (PwSliceTimeout(n) /\ cnt[n] + 1 < PASSWORD_POLLS)
                 => pc'[n] = "pw" ]_vars

\* the session of n raised asyncio.TimeoutError with its connection open:
\* a login cue scan ended without its cue (network_operations.py:89, 107)
ScanFailed(n) == pc[n] = "closing" /\ pend[n] = "timeout"

\* C19: a telnet session whose login cue scan ended without the cue carries
\* an outcome that is classified error, not timeout, and has written
\* nothing but the login id
C19_ScanFailureIsAuthError ==
    \A n \in Nodes :
        ScanFailed(n) =>
            /\ classify(run_node_task_result(pend[n])) = "error"
            /\ \A i \in 1..Len(sent[n]) : sent[n][i].w = "login_id"

\* the session of n ended in the connect: refused, unresolved or timed out
ConnectFailed(n) ==
    /\ node[n].protocol \in {"ssh", "telnet"}
    /\ pc[n] = "settled"
    /\ ~opened[n]
    /\ ~cancelled[n]

\* C20: a node whose connect failed is classified error, not timeout and
\* not success, and nothing was written to the transport
C20_ConnectFailureIsError ==
    \A i \in 1..Len(processed) :
        ConnectFailed(processed[i].node) =>
            /\ classify(processed[i]) = "error"
            /\ sent[processed[i].node] = <<>>

\* C11: a session that gives up the read of a scripted command's response
\* without the device having produced a prompt (and without a transport
\* error) ends with PromptTimeoutError, and the line marking the command is
\* in the log
C11_NoPromptEndsPromptTimeout ==
    [][ \A n \in Nodes :
           (/\ pc[n] = "read"
            /\ step[n] >= 3
            /\ pc'[n] = "closing"
            /\ pend'[n] # "caught")
               => /\ pend'[n] = "prompt"
                  /\ "cmd" \in log'[n] ]_vars

RECURSIVE Flatten(_)
\* the bytes of a sequence of chunks
Flatten(cs) == IF cs = <<>> THEN <<>> ELSE Head(cs) \o Flatten(Tail(cs))

RECURSIVE Refusals(_, _)
\* the refusals owed for the offers that are complete in byte stream d, from
\* place i on: IAC DONT x for IAC WILL x, IAC WONT x for IAC DO x
Refusals(d, i) ==
    IF i > Len(d)
    THEN <<>>
    ELSE IF d[i] = IAC /\ i + 2 <= Len(d) /\ d[i + 1] \in {WILL, DO}
    THEN <<IAC, IF d[i + 1] = WILL THEN DONT ELSE WONT, d[i + 2]>>
             \o Refusals(d, i + 3)
    ELSE Refusals(d, i + 1)

\* C16: whatever the division into reads and the login phase, the bytes the
\* client has written in reply are exactly one refusal per offer received,
\* and the cue buffer holds no byte of an offer
C16_EveryOfferRefused ==
    /\ replies = Refusals(Flatten(chunks), 1)
    /\ \A i \in 1..Len(buffer) : buffer[i] \notin ({IAC, WILL, DO} \cup Options)

\* the first k reads, all of the username/login scan, delivered a whole
\* WILL ECHO offer in the first read and then a login cue in some letter
\* case, a cut falling inside the cue
OfferThenSplitCue(k) ==
    /\ k \in 2..Len(chunks)
    /\ negotiation_attempts >= k
    /\ Len(chunks[1]) >= 3
    /\ LET d == Flatten(SubSeq(chunks, 1, k))
       IN  /\ Len(d) > 3
           /\ SubSeq(d, 1, 3) = <<IAC, WILL, 1>>
           /\ \E p \in LOGIN_CUES :
                 [i \in 1..(Len(d) - 3) |-> Upper(d[i + 3])]
                     = [i \in 1..Len(p) |-> Upper(p[i])]
           /\ \E j \in 1..k : Len(Flatten(SubSeq(chunks, 1, j))) \in 4..(Len(d) - 1)

\* C17: when a WILL ECHO offer and then a login cue in any letter case
\* arrive with the cue split across separate reads, the scan has replied
\* IAC DONT ECHO, has detected the cue at the read that completed it and
\* has written the login id
C17_SplitCueDetected ==
    \A k \in 2..(MaxCuts + 1) :
        OfferThenSplitCue(k) =>
            /\ scan \in {"pw", "pw_failed", "done"}
            /\ negotiation_attempts = k
            /\ replies = <<IAC, DONT, 1>>
            /\ sent[1] # <<>>
            /\ sent[1][1] = Wr("login_id", 0, FALSE)

\* C17 witness: the offer and 'LoGiN:' cut after 'LoG' were read, and the
\* password scan has started
C17_Witness ==
    /\ OfferThenSplitCue(2)
    /\ chunks[1] = <<IAC, WILL, 1, 76, 111, 71>>
    /\ chunks[2] = <<105, 78, 58>>
    /\ scan = "pw"

\* the device output in the log: the texts of its output entries, in order
Outputs(lf) ==
    Flatten([i \in 1..Len(SelectSeq(lf, LAMBDA e : e.kind = "output")) |->
                SelectSeq(lf, LAMBDA e : e.kind = "output")[i].text])

\* the log file has grown by exactly the entries es
Appended(es) == log_file' = log_file \o es

\* C21: a read that finds the connection closed returns normally: the step
\* in which read_until_prompt reads EOF writes the output accumulated so far
\* to the log and goes on with the script (the next command or the logout),
\* it never ends the session with PromptTimeout; and the session reaches
\* 'success' only by a logout poll that reads EOF
C21_EOFIsNotAnError ==
    [][ /\ ReadUntilPromptEOF =>
              /\ scan' \in {"read", "logout"}
              /\ Len(log_file') = Len(log_file) + 2
              /\ log_file'[Len(log_file) + 1] = LogEntry("output", Decode(full_output))
        /\ (scan = "logout" /\ wire = <<>> /\ LogoutPollEOF) => scan' = "success"
        /\ (scan' = "success" /\ scan # "success") =>
              /\ scan = "logout"
              /\ wire = <<>>
              /\ Appended(<<LogEntry("closed", <<>>)>>) ]_vars

\* C21 witness: the device sent 'a' and closed; the read returned the 'a'
\* without a prompt, the script went on to the logout and its first poll
\* read EOF
C21_Witness ==
    /\ scan = "success"
    /\ chunks = << <<97>> >>
    /\ log_file = << LogEntry("output", <<97>>), LogEntry("logout_attempt", <<>>),
                     LogEntry("closed", <<>>) >>

\* C22: when the session is cut off by PromptTimeout or by its TimeoutBudget
\* while it reads a response, every byte the device sent before the cut-off
\* is in the log file
C22_PartialOutputInLog ==
    (/\ scan \in {"prompt_timeout", "cancelled"}
     /\ \A i \in 1..Len(log_file) : log_file[i].kind # "logout_attempt")
        => Outputs(log_file) = Decode(Flatten(chunks))

\* C23 as stated: while the session reads and when it turns to the logout,
\* the device output in the log followed by the buffer of the running read
\* is exactly the bytes received, in order
C23_LogIsTheBuffers ==
    (scan = "read" \/ (scan = "logout" /\ polls = 0))
        => Outputs(log_file) \o full_output = Flatten(chunks)

\* a byte string that is ASCII throughout
IsAscii(q) == \A i \in 1..Len(q) : q[i] < 128

\* C23 amended: a read that completes appends to the log exactly one output
\* entry, the UTF-8 decoding (undecodable bytes dropped) of the buffer on
\* which the prompt test succeeded or which was accumulated at EOF, before
\* anything else is written; and while every byte received is ASCII, the
\* device output in the log followed by the buffer of the running read is
\* exactly the bytes received, in order
C23_LogIsTheDecodedBuffers ==
    /\ [](((scan = "read" \/ (scan = "logout" /\ polls = 0)) /\ IsAscii(Flatten(chunks)))
            => Outputs(log_file) \o full_output = Flatten(chunks))
    /\ [][ (scan = "read" /\ scan' \in {"read", "logout"} /\ log_file' # log_file) =>
              LET out == IF wire' # wire THEN full_output \o Head(wire) ELSE full_output
              IN  /\ wire' # wire => PromptFound(out)
                  /\ Len(log_file') = Len(log_file) + 2
                  /\ SubSeq(log_file', 1, Len(log_file)) = log_file
                  /\ log_file'[Len(log_file) + 1] = LogEntry("output", Decode(out))
                  /\ log_file'[Len(log_file) + 2].kind # "output" ]_vars

\* C23 witness: the response 'a' 0xff '>' arrived in two chunks and the read
\* completed at the prompt: the log holds 'a>'
C23_Witness ==
    /\ chunks = << <<97, 255>>, <<62>> >>
    /\ Len(log_file) >= 1
    /\ log_file[1] = LogEntry("output", <<97, 62>>)

\* C26: the verdict of the prompt test depends on the accumulated buffer
\* only.  While a read is running its buffer is the concatenation of the
\* chunks fed to it, and the verdict on it is negative; a read fed one more
\* chunk completes exactly when the verdict on the concatenation of all its
\* chunks, taken at once, is positive
C26_VerdictOfAccumulatedBuffer ==
    /\ [](scan = "read" =>
            /\ \E k \in 0..Len(chunks) :
                  full_output = Flatten(SubSeq(chunks, k + 1, Len(chunks)))
            /\ full_output # <<>> => ~PromptFound(full_output))
    /\ [][ (scan = "read" /\ wire' # wire) =>
              (log_file' # log_file <=> PromptFound(full_output \o Head(wire))) ]_vars

\* C26 witness: 'a' and '>' were fed in two chunks, neither of which is a
\* prompt by itself, and the read completed on 'a>'
C26_Witness ==
    /\ chunks = << <<97>>, <<62>> >>
    /\ ~PromptFound(chunks[1]) /\ ~PromptFound(chunks[2])
    /\ log_file # <<>>
    /\ log_file[1] = LogEntry("output", <<97, 62>>)

\* the statuses of the events of node n in queue q, in queue order
StatusesOf(q, n) ==
    LET own == SelectSeq(q, LAMBDA e : e.node = n)
    IN  [i \in 1..Len(own) |-> own[i].status]

\* q is the end of sequence r
IsSuffix(q, r) ==
    /\ Len(q) <= Len(r)
    /\ q = SubSeq(r, Len(r) - Len(q) + 1, Len(r))

\* C27: the events of one node lie in the status queue in the order the
\* session put them (the events still queued are the last ones it put),
\* whatever events of other nodes lie between them, and the display takes
\* them in that order: when it has emptied the queue, the status it holds
\* for every node that had events queued is the last one the session put
C27_PerNodeOrderKept ==
    /\ [](\A n \in Nodes : IsSuffix(StatusesOf(status_queue, n), emitted[n]))
    /\ [][ (status_queue # <<>> /\ status_queue' = <<>>) =>
              \A n \in Nodes :
                 IF StatusesOf(status_queue, n) # <<>>
                 THEN node_statuses'[n] = emitted[n][Len(emitted[n])]
                 ELSE node_statuses'[n] = node_statuses[n] ]_vars

\* C27 witness: the display has emptied the queue when it held two events
\* of one node in the order put ('connecting' before 'authenticating'),
\* with an event of another node between them
C27_Witness ==
    \E a, b \in Nodes :
        /\ a # b
        /\ Len(status_queue) = 3
        /\ status_queue[1] = [node |-> a, status |-> "authenticating"]
        /\ status_queue[2].node = b
        /\ status_queue[3] = [node |-> a, status |-> "executing_commands"]
        /\ node_statuses[a] = "connecting"

\* the lifecycle state of the session of n
SessionState(n) ==
    CASE pc[n] = "init"                          -> "NotStarted"
      [] pc[n] = "connect"                       -> "Connecting"
      [] pc[n] \in {"process", "nego", "pw"}     -> "Authenticating"
      [] pc[n] = "read" /\ step[n] = 0           -> "Authenticating"
      [] pc[n] = "read" /\ step[n] # 0           -> "ExecutingCommands"
      [] pc[n] = "logout"                        -> "LoggingOut"
      [] pc[n] = "closing" /\ pend[n] = "ok"     -> "Succeeded"
      [] pc[n] = "closing" /\ pend[n] # "ok"     -> "Failed"
      [] OTHER -> IF result[n].result = "path" THEN "Succeeded" ELSE "Failed"

\* the next lifecycle state of the session of n
SessionStateNext(n) ==
    CASE pc'[n] = "init"                         -> "NotStarted"
      [] pc'[n] = "connect"                      -> "Connecting"
      [] pc'[n] \in {"process", "nego", "pw"}    -> "Authenticating"
      [] pc'[n] = "read" /\ step'[n] = 0         -> "Authenticating"
      [] pc'[n] = "read" /\ step'[n] # 0         -> "ExecutingCommands"
      [] pc'[n] = "logout"                       -> "LoggingOut"
      [] pc'[n] = "closing" /\ pend'[n] = "ok"   -> "Succeeded"
      [] pc'[n] = "closing" /\ pend'[n] # "ok"   -> "Failed"
      [] OTHER -> IF result'[n].result = "path" THEN "Succeeded" ELSE "Failed"

\* the events the session of n puts on the queue in this step
PutNow(n) == SubSeq(emitted'[n], Len(emitted[n]) + 1, Len(emitted'[n]))

SendableCommands(n) == node[n].ncmds + node[n].addl

\* C24: the timer of every node is started with 30 + 5 x command_count
\* seconds, command_count being the number of commands the session may send
\* (scripted commands plus the follow-up commands configured for the node):
\* while the timer runs, the time elapsed and the time left add up to it
C24_BudgetCountsSendableCommands ==
    \A n \in Nodes :
        (timed /\ budgetLeft[n] > 0) =>
            budgetLeft[n] + now =
                Ticks(BASE_NODE_TIMEOUT + (SECONDS_PER_COMMAND * SendableCommands(n)))

\* profile q is profile p with commands added: scripted ones, follow-up
\* cells filled in, or additional_command rows added to the input file
Extends(q, p) == /\ q.protocol = p.protocol
                 /\ q.ncmds >= p.ncmds
                 /\ q.addl >= p.addl
                 /\ q.keys >= p.keys

\* C25: the TimeoutBudget a node's timer starts with is strictly positive,
\* and no profile obtained from the node's by adding scripted or follow-up
\* commands has a smaller TimeoutBudget
C25_BudgetPositiveAndMonotonic ==
    (timed /\ now = 0) =>
        \A n \in Nodes :
            /\ budgetLeft[n] > 0
            /\ \A q \in Profiles :
                   Extends(q, node[n]) => Ticks(node_timeout(q)) >= budgetLeft[n]

\* C25 witness: two timers are started, the node with more commands has the
\* larger TimeoutBudget
C25_Witness ==
    /\ timed
    /\ now = 0
    /\ AllStarted
    /\ \E m, n \in Nodes :
           /\ Extends(node[n], node[m])
           /\ node[n].ncmds > node[m].ncmds
           /\ node[n].addl > node[m].addl
           /\ 0 < budgetLeft[m]
           /\ budgetLeft[m] < budgetLeft[n]

(* ----------------------- outcomes and log files ------------------------ *)

\* node n has a session: its protocol is ssh or telnet
HasSession(n) == node[n].protocol \in {"ssh", "telnet"}

\* C29: the nodes having distinct names, a session that has started has
\* opened exactly one log file, {output_dir}/{nodename}_{timestamp}.txt, and
\* a node without a session none; a session writes to its log only through
\* that file; no path is opened by the sessions of two nodes; and when the
\* run is over every node has exactly one outcome
C29_OneOutcomeOwnLogFile ==
    /\ \A n \in Nodes :
          /\ opens[n] = IF HasSession(n) /\ pc[n] # "init"
                        THEN << << "output_dir", nodename(n), "timestamp" >> >>
                        ELSE <<>>
          /\ log[n] # {} => Len(opens[n]) = 1
          /\ \A m \in Nodes \ {n} :
                \A i \in 1..Len(opens[m]), j \in 1..Len(opens[n]) :
                    opens[m][i] # opens[n][j]
    /\ opc = "done" =>
          \A n \in Nodes : /\ Occurrences(processed, n) = 1
                           /\ Len(opens[n]) = IF HasSession(n) THEN 1 ELSE 0

\* C29 witness: a finished run in which an ssh and a telnet session have
\* each written to a log file of their own
C29_Witness ==
    /\ opc = "done"
    /\ \E a, b \in Nodes :
          /\ node[a].protocol = "ssh"
          /\ node[b].protocol = "telnet"
          /\ log[a] # {}
          /\ log[b] # {}
          /\ Len(opens[a]) = 1
          /\ Len(opens[b]) = 1
          /\ opens[a] # opens[b]

\* C29 witness, second case: a finished run in which a node without a
\* session has its outcome and no log file, next to a session with one
C29_WitnessNoSession ==
    /\ opc = "done"
    /\ \E a, b \in Nodes :
          /\ node[a].protocol = "other"
          /\ HasSession(b)
          /\ opens[a] = <<>>
          /\ Len(opens[b]) = 1
          /\ Occurrences(processed, a) = 1

(* ------------------------- the profiles parsed ------------------------- *)

\* C30: the list a parser returns has non-empty node names, no name twice,
\* and the protocol tag 'ssh' or 'telnet' in every profile (a list without
\* profiles satisfies this)
C30_ProfilesUniqueAndValid ==
    ppos = "returned" =>
        \A i \in 1..Len(nodes) :
            /\ nodes[i].nodename # <<>>
            /\ nodes[i].protocol \in {SSH, TELNET}
            /\ \A j \in 1..Len(nodes) :
                   j # i => nodes[j].nodename # nodes[i].nodename

(* ------------------------- the prompt detector ------------------------- *)

\* the last byte of out that is not whitespace is a terminator and the byte
\* just before it is not whitespace either (line breaks are whitespace)
EndsWithPrompt(out) ==
    LET ink == {i \in 1..Len(out) : ~IsSpace(out[i])}
    IN  /\ ink # {}
        /\ LET p == CHOOSE x \in ink : \A y \in ink : y <= x
           IN  /\ out[p] \in Terminators
               /\ p > 1
               /\ ~IsSpace(out[p - 1])

\* C31: the prompt detector answers 'complete' for a buffer exactly when the
\* buffer has a non-blank line and its last non-blank line ends, apart from
\* trailing whitespace, with a terminator that directly follows a
\* non-whitespace byte; blank trailing lines and earlier lines have no
\* influence.  A read fed a chunk returns exactly when its buffer is of
\* this form
C31_CompleteIffLastLineEndsWithPrompt ==
    [][ (scan = "read" /\ wire' # wire) =>
            (log_file' # log_file <=> EndsWithPrompt(full_output \o Head(wire))) ]_vars

\* C31 witness: the read completed on 'a>' followed by a blank line, and
\* another buffer with a terminator at the start of its last line did not
C31_Witness ==
    /\ log_file # <<>>
    /\ log_file[1] = LogEntry("output", <<97, 62, 10, 32>>)
    /\ ~PromptFound(<<97, 10, 62>>)
    /\ ~PromptFound(<<97, 62, 10, 97>>)

(* ---------------------- the division into chunks ----------------------- *)

RECURSIVE read_until_prompt(_, _)
\* network_operations.py:20-34  the bytes read_until_prompt has accumulated
\* when it returns, started with full_output = out and fed the chunks cs,
\* after which the peer closes
read_until_prompt(out, cs) ==
    IF cs = <<>>
    THEN out
    ELSE IF PromptFound(out \o Head(cs))
         THEN out \o Head(cs)
         ELSE read_until_prompt(out \o Head(cs), Tail(cs))

\* the bytes the device sends in the session, read or not yet read
DeviceStream == Flatten(chunks) \o Flatten(wire)

\* the ways the transport may divide stream q into reads
DivisionsOf(q) == IF q = <<>> THEN {<<>>} ELSE Divisions(q)

\* the first read of the session has returned
FirstReadReturned == log_file # <<>> /\ log_file[1].kind = "output"

\* C32 as stated: the text the first read returns is the text it returns
\* for every division of the device's stream into chunks
C32_ChunkingIndependent ==
    FirstReadReturned =>
        \A d \in DivisionsOf(DeviceStream) :
            log_file[1].text = Decode(read_until_prompt(<<>>, d))

\* no proper prefix of q passes the prompt test
NoEarlierPrompt(q) == \A k \in 1..(Len(q) - 1) : ~PromptFound(SubSeq(q, 1, k))

\* C32 amended: when no proper prefix of the device's stream passes the
\* prompt test, the text the first read returns is the text it returns for
\* every division of the stream into chunks, and it is the whole stream:
\* nothing of it is left unread when the next command is written
C32_IndependentWithoutEarlierPrompt ==
    (FirstReadReturned /\ NoEarlierPrompt(DeviceStream)) =>
        /\ \A d \in DivisionsOf(DeviceStream) :
               log_file[1].text = Decode(read_until_prompt(<<>>, d))
        /\ log_file[1].text = Decode(DeviceStream)

\* C32 witness: a stream that ends with its only prompt arrived in three
\* chunks and the first read returned all of it
C32_Witness ==
    /\ FirstReadReturned
    /\ NoEarlierPrompt(DeviceStream)
    /\ PromptFound(DeviceStream)
    /\ Len(chunks) = 3
    /\ wire = <<>>
    /\ log_file[1].text = Decode(Flatten(chunks))
    /\ Len(log_file[1].text) >= 3

(* --------------------------- the telnet login -------------------------- *)

\* the write the session of n makes in this step
LastWritten(n) == sent'[n][Len(sent'[n])]

\* C33: in a telnet session the login id is the first write and is made in
\* the step in which the username/login scan reads the cue; the password is
\* the second write, made in the step in which the password scan, started
\* after the id, reads the password cue; a follow-up or scripted command is
\* written only after both, in a step in which a prompt read returns, the
\* first of them when the initial prompt read returns
C33_CuesBeforeCredentials ==
    /\ [](\A n \in Nodes :
             node[n].protocol = "telnet" =>
                 \A i \in 1..Len(sent[n]) :
                     /\ sent[n][i].w = "login_id" => i = 1
                     /\ sent[n][i].w = "password" =>
                            i = 2 /\ sent[n][1].w = "login_id"
                     /\ sent[n][i].w \in {"addl", "cmd"} =>
                            /\ i >= 3
                            /\ sent[n][2].w = "password"
                            /\ "output" \in log[n])
    /\ [][ \A n \in Nodes :
              (node[n].protocol = "telnet" /\ Wrote(n)) =>
                  /\ LastWritten(n).w = "login_id" =>
                         pc[n] = "nego" /\ NegoData(n, TRUE)
                  /\ LastWritten(n).w = "password" =>
                         pc[n] = "pw" /\ PwData(n, TRUE)
                  /\ LastWritten(n).w \in {"addl", "cmd"} =>
                         /\ pc[n] = "read"
                         /\ ReadEOF(n) \/ \E colon \in BOOLEAN : ReadChunk(n, TRUE, colon)
                         /\ Len(sent[n]) = 2 <=> step[n] = 0 ]_vars

\* C33 witness: a telnet session with one follow-up and one scripted
\* command has written its login id, its password and both commands
C33_Witness ==
    \E n \in Nodes :
        /\ node[n].protocol = "telnet"
        /\ node[n].ncmds = 1
        /\ node[n].addl = 1
        /\ Len(sent[n]) >= 4
        /\ SubSeq(sent[n], 1, 4) = << Wr("login_id", 0, FALSE), Wr("password", 0, FALSE),
                                      Wr("addl", 1, FALSE), Wr("cmd", 1, FALSE) >>

(* ------------------------ closing the connection ----------------------- *)

\* the session of n calls writer.close() in this step: it enters its
\* finally clause with a connection open
Closes(n) == pc'[n] = "closing" /\ pc[n] # "closing"

\* C34: a telnet session calls writer.close() exactly once when it has
\* opened a connection, on whatever way it ends, and never when it has not:
\* it closes only with a connection open and from a point of its body, it
\* does not return to its body after the close, and it settles from the
\* wait that follows the close exactly when it had opened a connection
C34_ClosedExactlyOnce ==
    /\ [](\A n \in Nodes :
             node[n].protocol = "telnet" =>
                 /\ pc[n] = "closing" => opened[n]
                 /\ pc[n] = "closing" =>
                        pend[n] \in {"ok", "caught", "timeout", "prompt", "logout", "cancel"})
    /\ [][ \A n \in Nodes :
              node[n].protocol = "telnet" =>
                  /\ Closes(n) => opened[n] /\ pc[n] \in AwaitPoints
                  /\ pc[n] = "closing" => pc'[n] \in {"closing", "settled"}
                  /\ pc[n] = "settled" => pc'[n] = "settled"
                  /\ (pc'[n] = "settled" /\ pc[n] # "settled") =>
                         (opened[n] <=> pc[n] = "closing") ]_vars

\* C34 witness: a telnet session that had logged in was cancelled by the
\* orchestrator's timer, closed its connection and has settled
C34_Witness ==
    \E n \in Nodes :
        /\ node[n].protocol = "telnet"
        /\ pc[n] = "settled"
        /\ cancelled[n]
        /\ opened[n]
        /\ Len(sent[n]) >= 2
        /\ result[n].error = "TimeoutError"

\* C34 witness, second case: a telnet session whose connect failed has
\* settled without a connection
C34_WitnessConnectFailed ==
    \E n \in Nodes :
        /\ node[n].protocol = "telnet"
        /\ pc[n] = "settled"
        /\ ~opened[n]
        /\ emitted[n] = <<"connecting">>

(* ----------------------- the events of a session ----------------------- *)

\* network_operations.py:41, 54, 117  the statuses a session reports on its
\* way, in order
LifecycleStatuses == << "connecting", "authenticating", "executing_commands" >>

\* C35: the events a session has put on the queue are the first k of
\* connecting, authenticating, executing_commands, followed by nothing or
\* by one success or error; the first event is connecting; success is put
\* only in the step in which a logout poll reads EOF; and after success or
\* error the session puts nothing
C35_LifecycleEventOrder ==
    /\ [](\A n \in Nodes :
             HasSession(n) =>
                 /\ \E k \in 0..3 :
                        \/ emitted[n] = SubSeq(LifecycleStatuses, 1, k)
                        \/ \E t \in {"success", "error"} :
                               emitted[n] = Append(SubSeq(LifecycleStatuses, 1, k), t)
                 /\ emitted[n] # <<>> => emitted[n][1] = "connecting")
    /\ [][ \A n \in Nodes :
              HasSession(n) =>
                  /\ (\E i \in 1..Len(PutNow(n)) : PutNow(n)[i] = "success") =>
                         pc[n] = "logout" /\ LogoutEOF(n)
                  /\ (\E i \in 1..Len(emitted[n]) : emitted[n][i] \in {"success", "error"}) =>
                         emitted'[n] = emitted[n] ]_vars

\* C35 witness: one session has put all three lifecycle events and then
\* success, after a scripted command
C35_Witness ==
    \E n \in Nodes :
        /\ HasSession(n)
        /\ emitted[n] = Append(LifecycleStatuses, "success")
        /\ "cmd" \in log[n]
        /\ pc[n] = "settled"

\* C35 witness, second case: a session that caught an exception during the
\* login has put connecting, authenticating and error
C35_WitnessError ==
    \E n \in Nodes :
        /\ HasSession(n)
        /\ emitted[n] = << "connecting", "authenticating", "error" >>
        /\ pc[n] = "settled"

(* -------------------------- the final display -------------------------- *)

\* C36: after the final display update the status shown for every node is
\* terminal and is the outcome the completion loop assigned to the node
C36_FinalDisplayShowsOutcome ==
    opc = "done" =>
        \A n \in Nodes :
            /\ node_statuses[n] \in TerminalStatuses
            /\ node_statuses[n] = classify(result[n])

(* ------------------------- unknown protocols --------------------------- *)

\* C37: a node whose protocol is neither ssh nor telnet never has a
\* session: it is never at a suspension point, opens no connection and no
\* log file and writes nothing.  The step that starts it puts its one
\* 'error' event, settles it with an error outcome and leaves the session
\* of every other node as it is; the completion loop counts it and
\* classifies it 'error'
C37_UnknownProtocolSettlesAtOnce ==
    /\ [](\A n \in Nodes :
             node[n].protocol = "other" =>
                 /\ pc[n] \in {"init", "settled"}
                 /\ ~opened[n]
                 /\ opens[n] = <<>>
                 /\ log[n] = {}
                 /\ sent[n] = <<>>
                 /\ emitted[n] = IF pc[n] = "init" THEN <<>> ELSE <<"error">>
                 /\ pc[n] = "settled" =>
                        /\ result[n].result = "none"
                        /\ result[n].error \notin {"none", "unset"}
                        /\ classify(result[n]) = "error"
                 /\ opc = "done" =>
                        /\ Occurrences(processed, n) = 1
                        /\ node_statuses[n] = "error")
    /\ [][ \A n \in Nodes :
              (node[n].protocol = "other" /\ pc[n] = "init" /\ pc'[n] # "init") =>
                  /\ pc'[n] = "settled"
                  /\ done_q' = Append(done_q, n)
                  /\ \A m \in Nodes \ {n} :
                         /\ pc'[m] = pc[m]
                         /\ result'[m] = result[m]
                         /\ emitted'[m] = emitted[m]
                         /\ timer'[m] = timer[m]
                         /\ sent'[m] = sent[m]
                         /\ log'[m] = log[m]
                  /\ budgetLeft' = budgetLeft
                  /\ now' = now ]_vars

\* C37 witness: a finished run of a node with an unknown protocol, shown as
\* 'error', and a session that succeeded after the other node had settled
C37_Witness ==
    /\ opc = "done"
    /\ \E a, b \in Nodes :
          /\ node[a].protocol = "other"
          /\ node_statuses[a] = "error"
          /\ emitted[a] = <<"error">>
          /\ result[b].result = "path"
          /\ processed[1].node = a
          /\ processed[2].node = b

(* ----------------------------- cycle mode ------------------------------ *)

\* run_cycle.py:271  f"{node['nodename']}_cycle_log.txt", in the working
\* directory
cycle_log_path(n) == << ".", nodename(n), "cycle_log" >>

\* network_operations.py:117  the passes of run_commands the session with
\* status events e has started: each reports 'executing_commands' first
Passes(e) == Cardinality({i \in 1..Len(e) : e[i] = "executing_commands"})

\* the session of n ended with an exception, which gather collects
SessionRaised(n) == pc[n] = "settled" /\ result[n].error \notin {"none", "unset"}

\* network_operations.py:116-143 / 205-232  run_commands starts: it reports
\* 'executing_commands' and sends the first command of the script; with
\* nothing to send the pass is over and the session sleeps
PassStart(n, mk, lines) ==
    LET nx == AfterRead(node[n], 0, mk)
    IN  IF nx.pc = "read"
        THEN Move(n, "read", 0, nx.step, FALSE, <<"executing_commands">>,
                  lines \cup nx.lines, Ticks(PROMPT_TIMEOUT), <<nx.wr>>)
        ELSE Move(n, "sleep", 0, 0, FALSE, <<"executing_commands">>, lines,
                  0, <<>>)

\* the test of the while loop left out: a pass starts whatever the stop
\* event says
LoopTest_NoStopTest(n, mk, lines) ==
    /\ Passes(emitted[n]) < MaxPasses
    /\ PassStart(n, mk, lines)

\* network_operations.py:148-158 / 237-246  `while not stop_event.is_set()`:
\* with the stop event set the loop is left and the first logout phrase is
\* written, otherwise the next pass starts
LoopTest(n, mk, lines) ==
    IF stop_event
    THEN Move(n, "logout", 0, 1, FALSE, <<>>, lines \cup {"logout_attempt"},
              Ticks(LOGOUT_POLL_TIMEOUT), <<Wr("logout", 1, FALSE)>>)
    ELSE /\ Passes(emitted[n]) < MaxPasses
         /\ PassStart(n, mk, lines)

\* network_operations.py:111-151 / 203-240  read_until_prompt returned in
\* cycle mode: after the initial read the loop is entered, within a pass
\* run_commands goes on, after the last command of the pass the session
\* sleeps for the interval
CycleReadReturn(n, mk) ==
    IF step[n] = 0
    THEN LoopTest(n, mk, {"output"})
    ELSE IF AfterRead(node[n], step[n], mk).pc = "read"
    THEN ReadReturn(n, mk)
    ELSE Move(n, "sleep", 0, 0, FALSE, <<>>, {"output"}, 0, <<>>)

\* run_cycle.py:270-284  run_node_cycle starts: an unknown protocol puts
\* one 'error' event and returns; otherwise the session opens its log
\* file, reports 'connecting' and suspends in the connect
CycleStart(n) ==
    /\ opc = "gather"
    /\ pc[n] = "init"
    /\ UNCHANGED cfgVars
    /\ opens' = [opens EXCEPT ![n] = IF node[n].protocol = "other"
                                     THEN @
                                     ELSE Append(@, cycle_log_path(n))]
    /\ IF node[n].protocol = "other"
       THEN /\ emitted' = [emitted EXCEPT ![n] = @ \o <<"error">>]
            /\ status_queue' = status_queue \o Events(n, <<"error">>)
            /\ Settle(n, Returned("none", "none"))
            /\ UNCHANGED << cnt, step, marker, cancelled, opened, log, timer, sent >>
       ELSE Move(n, "connect", 0, 0, FALSE, <<"connecting">>, {"connecting"},
                 IF node[n].protocol = "telnet" THEN Ticks(CONNECT_TIMEOUT) ELSE 0, <<>>)

\* network_operations.py:23-30  a chunk arrives in read_until_prompt
CycleReadChunk(n, prompt, colon) ==
    /\ pc[n] = "read"
    /\ UNCHANGED envVars
    /\ IF prompt
       THEN CycleReadReturn(n, marker[n] \/ colon)
       ELSE Move(n, "read", 0, step[n], marker[n] \/ colon, <<>>, {},
                 Ticks(PROMPT_TIMEOUT), <<>>)

\* network_operations.py:25-26  the peer closes: read_until_prompt returns
\* what it has accumulated
CycleReadEOF(n) ==
    /\ pc[n] = "read"
    /\ UNCHANGED envVars
    /\ CycleReadReturn(n, marker[n])

\* network_operations.py:151 / 240  asyncio.sleep(cycle_interval / 1000)
\* returns and the loop tests the stop event
SleepDone(n) ==
    /\ pc[n] = "sleep"
    /\ UNCHANGED envVars
    /\ LoopTest(n, FALSE, {})

\* run_cycle.py:133-136  Enter is pressed and the event loop runs the
\* callback stop_event.set
SetStop ==
    /\ opc = "gather"
    /\ ~stop_event
    /\ stop_event' = TRUE
    /\ UNCHANGED << node, orchVars, timed, detail, now, budgetLeft, wireVars,
                    parseVars, cycle_interval, opens, pc, cnt, step, marker,
                    pend, cancelled, opened, log, emitted, result,
                    status_queue, done_q, timer, sent >>

\* the coordinator of cycle mode moves to position p
CycleMove(p) ==
    /\ opc' = p
    /\ UNCHANGED << node, node_statuses, completed_count, successful_log_files,
                    processed, archived, timed, detail, now, budgetLeft,
                    wireVars, parseVars, cycleVars, opens, pc, cnt, step,
                    marker, pend, cancelled, opened, log, emitted, result,
                    status_queue, done_q, timer, sent >>

\* gather without return_exceptions: the first exception of a session is
\* raised in cycle_mode
Gathered_FirstException ==
    /\ opc = "gather"
    /\ \/ \A n \in Nodes : pc[n] = "settled"
       \/ \E n \in Nodes : SessionRaised(n)
    /\ CycleMove("join")

\* run_cycle.py:283-287  asyncio.gather(*tasks, return_exceptions=True)
\* returns when every run_node_cycle has ended, by return or by exception;
\* cycle_mode then waits for the listener thread
Gathered ==
    /\ opc = "gather"
    /\ \A n \in Nodes : pc[n] = "settled"
    /\ CycleMove("join")

\* run_cycle.py:288  listener_thread.join() returns, after Enter was
\* pressed: cycle_mode returns
Joined ==
    /\ opc = "join"
    /\ CycleMove("returned")

\* the profiles of cycle mode: a script of scripted commands only
CycleProfiles ==
    {p \in Profiles : p.keys = 0}

InitCycle ==
    /\ node \in [Nodes -> CycleProfiles]
    /\ InitCommon
    /\ opc = "gather"
    /\ ParseIdle
    /\ NoFileOpen
    /\ WireIdle
    /\ timed = FALSE
    /\ detail = FALSE
    /\ budgetLeft = [n \in Nodes |-> 0]
    /\ cycle_interval = MaxInterval
    /\ stop_event = FALSE

NextCycle ==
    \/ \E n \in Nodes : CycleStart(n)
    \/ \E n \in Nodes : ConnectOk(n)
    \/ \E n \in Nodes : ConnectTimeout(n)
    \/ \E n \in Nodes : ProcessOk(n)
    \/ \E n \in Nodes : SessionError(n)
    \/ \E n \in Nodes, cue \in BOOLEAN : NegoData(n, cue)
    \/ \E n \in Nodes : NegoEOF(n)
    \/ \E n \in Nodes : NegoSliceTimeout(n)
    \/ \E n \in Nodes, cue \in BOOLEAN : PwData(n, cue)
    \/ \E n \in Nodes : PwEOF(n)
    \/ \E n \in Nodes : PwSliceTimeout(n)
    \/ \E n \in Nodes, prompt \in BOOLEAN, colon \in BOOLEAN : CycleReadChunk(n, prompt, colon)
    \/ \E n \in Nodes : CycleReadEOF(n)
    \/ \E n \in Nodes : ReadTimeout(n)
    \/ \E n \in Nodes : SleepDone(n)
    \/ \E n \in Nodes : LogoutEOF(n)
    \/ \E n \in Nodes : LogoutData(n)
    \/ \E n \in Nodes : LogoutPollTimeout(n)
    \/ \E n \in Nodes : CloseDone(n)
    \/ \E n \in Nodes : CloseError(n, FALSE)
    \/ SetStop
    \/ Gathered
    \/ Joined

SpecCycle == InitCycle /\ [][NextCycle]_vars

\* the session of n is between two passes of the script: in the initial
\* prompt read, before the first pass, or asleep after a pass
BetweenPasses(n) == pc[n] = "sleep" \/ (pc[n] = "read" /\ step[n] = 0)

\* C38: in cycle mode a session leaves the command loop for the logout
\* procedure only with the stop event set and only between two passes; once
\* the stop event is set no session starts a pass, and a session that wakes
\* from its sleep goes to the logout; cycle_mode is past its gather only
\* when every node's session has ended; the step by which one session ends
\* or fails changes no other session
C38_CycleUntilStop ==
    /\ [](/\ opc \in {"join", "returned"} => \A n \in Nodes : pc[n] = "settled"
          /\ \A n \in Nodes :
                (\/ pc[n] = "logout"
                 \/ \E i \in 1..Len(emitted[n]) : emitted[n][i] = "success")
                    => stop_event)
    /\ [][ \A n \in Nodes :
              /\ stop_event => Passes(emitted'[n]) = Passes(emitted[n])
              /\ (pc[n] # "logout" /\ pc'[n] = "logout") =>
                     /\ stop_event
                     /\ BetweenPasses(n)
              /\ (stop_event /\ pc[n] = "sleep" /\ pc'[n] # "sleep") =>
                     pc'[n] = "logout"
              /\ (~stop_event /\ BetweenPasses(n) /\ pc'[n] \notin {pc[n], "closing"}) =>
                     Passes(emitted'[n]) = Passes(emitted[n]) + 1
              /\ (pc[n] # pc'[n] /\ pc'[n] \in {"closing", "settled"}) =>
                     \A m \in Nodes \ {n} :
                         /\ pc'[m] = pc[m]
                         /\ step'[m] = step[m]
                         /\ cnt'[m] = cnt[m]
                         /\ emitted'[m] = emitted[m]
                         /\ pend'[m] = pend[m]
                         /\ result'[m] = result[m] ]_vars

\* C38 witness: cycle_mode has returned; one session failed in its first
\* pass with PromptTimeoutError, the other ended later, after MaxPasses
\* passes, with a successful logout
C38_Witness ==
    /\ opc = "returned"
    /\ stop_event
    /\ \E a, b \in Nodes :
          /\ done_q = << b, a >>
          /\ result[b].error = "PromptTimeoutError"
          /\ Passes(emitted[b]) = 1
          /\ Passes(emitted[a]) = MaxPasses
          /\ emitted[a][Len(emitted[a])] = "success"

(* -------------------------- parsed commands ---------------------------- *)

\* a blank cell: nothing in it but white space
Blank(c) == \A i \in 1..Len(c) : IsStrSpace(c[i])

\* the values of the cells up to, not including, the first blank one
UpToFirstBlank(cells) ==
    LET k == CHOOSE k \in 0..Len(cells) :
                 /\ \A j \in 1..k : ~Blank(cells[j])
                 /\ k = Len(cells) \/ Blank(cells[k + 1])
    IN  [j \in 1..k |-> strip(cells[j])]

\* the columns of t whose nodename cell is not blank, in file order
NamedColumns(t) == SelectSeq(t, LAMBDA c : ~Blank(c.nodename))

\* C39: the profiles a parser returns are those of the columns of the input
\* file whose nodename cell is not blank, in file order, and the commands
\* of each are the values of that column's command rows up to, not
\* including, its first blank cell
C39_CommandsUpToFirstBlank ==
    ppos = "returned" =>
        /\ Len(nodes) = Len(NamedColumns(file))
        /\ \A i \in 1..Len(nodes) :
              nodes[i].commands = UpToFirstBlank(NamedColumns(file)[i].commands)

====
